---- MODULE Spec2Model ----
(***************************************************************************)
(* A model of the RLM MCP server's context processing engine:              *)
(*   - ContextProcessor (decompose, search, findAll), a set of pure        *)
(*     functions over a text, written here as operators that follow the    *)
(*     TypeScript statement by statement;                                  *)
(*   - the tool handlers rlm_decompose_context, rlm_get_chunks,            *)
(*     rlm_search_context and rlm_find_all that call them;                 *)
(*   - the session registry and the tool handlers that work on sessions.   *)
(* A text is the sequence of its UTF-16 code units, each written as a     *)
(* string; offsets are 0-based as in the source, TLA+ sequence positions   *)
(* are 1-based.                                                            *)
(***************************************************************************)
EXTENDS Integers, Sequences, FiniteSets, TLC

VARIABLES
    content,   \* the text under processing (a context's content)
    calls,     \* the calls made so far, oldest first, each with its result
    sessions,  \* the session registry: session id -> session
    created,   \* the number of sessions createSession has made so far
    now,       \* the wall clock, in milliseconds
    running,   \* the execute_code calls in progress, oldest first
    docs,      \* the documentation directory of the TOC generator
    generator  \* the fields of the TOCGenerator object

vars == <<content, calls, sessions, created, now, running, docs, generator>>

sessionVars == <<sessions, created, now, running>>

tocVars == <<docs, generator>>

\* No documentation directory; it is also the value of docs where no TOC is
\* generated.
NoDirectory == [exists |-> FALSE]

\* private fileCount = 0; private totalSize = 0;
NewGenerator == [fileCount |-> 0, totalSize |-> 0]

\* No TOC generator at work: no directory, an object as constructed.
NoDocumentation ==
    /\ docs = NoDirectory
    /\ generator = NewGenerator

\* The registry after construction: no session, no call in progress.
NewRegistry ==
    /\ sessions = <<>>
    /\ created = 0
    /\ now = 0
    /\ running = <<>>

(***************************************************************************)
(* Bounds of the model                                                     *)
(***************************************************************************)
MaxLen == 4          \* longest enumerated text of the decomposition engine
MaxToolLen == 3      \* longest enumerated context of the chunk tools
MaxSearchLen == 3    \* longest enumerated text of the search engine

(***************************************************************************)
(* Program constants                                                       *)
(***************************************************************************)
CHARACTER_LIMIT == 100000
MAX_SEARCH_RESULTS == 500
DEFAULT_CHUNK_SIZE == 10000
DEFAULT_OVERLAP == 200
DEFAULT_LINES_PER_CHUNK == 100
DEFAULT_BY_LINES_OVERLAP == 10
DEFAULT_PATTERN == "\\n\\n+"

(***************************************************************************)
(* Optional values: <<>> is undefined, <<v>> is the value v.               *)
(***************************************************************************)
Undefined == <<>>
Some(v) == <<v>>

\* JavaScript's  v || d  for an optional number: undefined and 0 are falsy.
OrNumber(v, d) == IF v = Undefined \/ v[1] = 0 THEN d ELSE v[1]

\* JavaScript's  v || d  for an optional string: undefined and "" are falsy.
OrString(v, d) == IF v = Undefined \/ v[1] = "" THEN d ELSE v[1]

(***************************************************************************)
(* Strings                                                                 *)
(***************************************************************************)
NL == "\n"

Min(a, b) == IF a < b THEN a ELSE b
Max(a, b) == IF a > b THEN a ELSE b
MinOf(S) == CHOOSE x \in S : \A y \in S : x <= y
MaxOf(S) == CHOOSE x \in S : \A y \in S : x >= y

\* String.prototype.slice(b, e) and Array.prototype.slice(b, e): a negative
\* position counts from the end, both are clamped to [0, length].
slice(s, b, e) ==
    LET n    == Len(s)
        from == IF b < 0 THEN Max(n + b, 0) ELSE Min(b, n)
        to   == IF e < 0 THEN Max(n + e, 0) ELSE Min(e, n)
    IN  IF from < to THEN SubSeq(s, from + 1, to) ELSE <<>>

\* \s of a regular expression and the characters trim() strips.
IsSpace(c) == c \in {" ", NL}

\* String.prototype.trim()
trim(s) ==
    LET keep == {i \in 1..Len(s) : ~IsSpace(s[i])}
    IN  IF keep = {} THEN <<>> ELSE SubSeq(s, MinOf(keep), MaxOf(keep))

\* String.prototype.indexOf(sub, from): the first offset >= from at which sub
\* occurs, -1 when there is none; the empty string occurs at every offset.
indexOf(s, sub, from) ==
    LET start == Min(Max(from, 0), Len(s))
        found == {i \in start..(Len(s) - Len(sub)) :
                      SubSeq(s, i + 1, i + Len(sub)) = sub}
    IN  IF found = {} THEN -1 ELSE MinOf(found)

\* Array.prototype.join(sep) of an array of strings
\* (the two halves of the array joined, with sep between them)
RECURSIVE join(_, _)
join(parts, sep) ==
    IF parts = <<>> THEN <<>>
    ELSE IF Len(parts) = 1 THEN parts[1]
    ELSE LET half == Len(parts) \div 2
         IN  join(SubSeq(parts, 1, half), sep) \o <<sep>>
             \o join(SubSeq(parts, half + 1, Len(parts)), sep)

\* String.prototype.split(sep) for a one-character separator
\* The pieces of s between the offsets lo and hi: the pieces of the two
\* halves, the last piece of the first half running on into the first piece
\* of the second.
RECURSIVE splitBetween(_, _, _, _)
splitBetween(s, sep, lo, hi) ==
    IF \A i \in (lo + 1)..hi : s[i] # sep THEN <<slice(s, lo, hi)>>
    ELSE IF hi - lo = 1 THEN <<<<>>, <<>>>>
    ELSE LET mid    == (lo + hi) \div 2
             before == splitBetween(s, sep, lo, mid)
             after  == splitBetween(s, sep, mid, hi)
         IN  SubSeq(before, 1, Len(before) - 1)
             \o <<before[Len(before)] \o after[1]>>
             \o SubSeq(after, 2, Len(after))

splitFrom(s, sep, pos) == splitBetween(s, sep, pos, Len(s))

split(s, sep) == splitFrom(s, sep, 0)

\* The number of consecutive characters of s from offset p on that are in set.
RunIn(s, p, set) ==
    LET stop == {i \in p..(Len(s) - 1) : s[i + 1] \notin set}
    IN  (IF stop = {} THEN Max(Len(s), p) ELSE MinOf(stop)) - p

\* The number of consecutive characters of s from offset p on that are not in set.
RunNotIn(s, p, set) ==
    LET stop == {i \in p..(Len(s) - 1) : s[i + 1] \in set}
    IN  (IF stop = {} THEN Max(Len(s), p) ELSE MinOf(stop)) - p

(***************************************************************************)
(* Regular expressions.  The patterns a caller can give are modelled by a  *)
(* family that covers the default of by-regex: a pattern is a run of one   *)
(* character,  ch{min}  (plus = FALSE)  or  ch{min,}  (plus = TRUE,        *)
(* greedy); with min = 0 it matches the empty string.  "(" stands for the  *)
(* sources that do not compile.                                            *)
(***************************************************************************)
Lower(c) == CASE c = "A" -> "a" [] c = "B" -> "b" [] c = "C" -> "c" [] OTHER -> c

Compile(pattern) ==
    CASE pattern = "\\n\\n+" -> [ch |-> NL,  min |-> 2, plus |-> TRUE]
      [] pattern = "#"       -> [ch |-> "#", min |-> 1, plus |-> FALSE]
      [] pattern = "\\.+"    -> [ch |-> ".", min |-> 1, plus |-> TRUE]
      [] pattern = " "       -> [ch |-> " ", min |-> 1, plus |-> FALSE]
      [] pattern = "a"       -> [ch |-> "a", min |-> 1, plus |-> FALSE]
      [] pattern = "a+"      -> [ch |-> "a", min |-> 1, plus |-> TRUE]
      [] pattern = "a*"      -> [ch |-> "a", min |-> 0, plus |-> TRUE]

\* The sources and flags new RegExp accepts; it throws on the others.
ValidPattern(pattern) == pattern # "("
ValidFlags(flags) == flags \in {"", "g", "i", "gi"}

\* new RegExp(pattern, flags) for a source and flags that compile
RegExp(pattern, flags) ==
    [ch |-> Compile(pattern).ch, min |-> Compile(pattern).min,
     plus |-> Compile(pattern).plus,
     global |-> flags \in {"g", "gi"}, ignoreCase |-> flags \in {"i", "gi"}]

\* The characters of the alphabet the character of re matches.
MatchedBy(re, c) == IF re.ignoreCase THEN Lower(c) = Lower(re.ch) ELSE c = re.ch

\* The length of the match of re that starts at offset p, -1 when none does.
MatchLenAt(s, re, p) ==
    LET stop == {i \in p..(Len(s) - 1) : ~MatchedBy(re, s[i + 1])}
        run  == (IF stop = {} THEN Max(Len(s), p) ELSE MinOf(stop)) - p
    IN  IF run < re.min THEN -1 ELSE IF re.plus THEN run ELSE re.min

\* The match RegExp.prototype.exec finds scanning from offset from on: the
\* leftmost one, or no match.
NoMatch == [index |-> -1, length |-> 0]
exec(s, re, from) ==
    LET at == {p \in from..Len(s) : MatchLenAt(s, re, p) >= 0}
    IN  IF at = {} THEN NoMatch
        ELSE [index |-> MinOf(at), length |-> MatchLenAt(s, re, MinOf(at))]

\* String.prototype.split(regex) for a regex that never matches the empty string.
RECURSIVE splitRegexFrom(_, _, _)
splitRegexFrom(s, re, pos) ==
    LET m == exec(s, re, pos)
    IN  IF m.index = -1 THEN <<slice(s, pos, Len(s))>>
        ELSE <<slice(s, pos, m.index)>> \o splitRegexFrom(s, re, m.index + m.length)

splitRegex(s, re) == splitRegexFrom(s, re, 0)

(***************************************************************************)
(* ContextProcessor: decomposition                                         *)
(***************************************************************************)
NoMetadata == [type |-> "none"]

Chunk(index, text, startOffset, endOffset, metadata) ==
    [index |-> index, content |-> text, startOffset |-> startOffset,
     endOffset |-> endOffset, metadata |-> metadata]

\* The loop condition of decomposeBySize after the first chunk: the loop breaks
\* when the step chunkSize - overlap is not positive.
BySizeContinues(chunkSize, overlap) == ~(chunkSize - overlap <= 0)

\* decomposeBySize.  The k-th iteration of the while loop (k = 0, 1, ...) runs
\* with offset = k * (chunkSize - overlap) and index = k; it runs while
\* offset < content.length, and only once when the break is taken.
decomposeBySize(text, chunkSize, overlap) ==
    LET len   == Len(text)
        step  == chunkSize - overlap
        count == IF ~(0 < len) THEN 0
                 ELSE IF ~BySizeContinues(chunkSize, overlap) THEN 1
                 ELSE (len + step - 1) \div step
    IN  [k \in 1..count |->
            LET offset == (k - 1) * step
                end    == Min(offset + chunkSize, len)
            IN  Chunk(k - 1, slice(text, offset, end), offset, end, NoMetadata)]

\* The number of lines decomposeByLines moves on after a chunk.
AdvanceLines(linesPerChunk, overlapLines) == Max(1, linesPerChunk - overlapLines)

\* The for loop of decomposeByLines that adds the consumed lines to charOffset.
\* for (i = 0; i < advanceLines && lineIndex + i < lines.length; i++): the
\* lengths added from step i on, summed by halves.
RECURSIVE ConsumedChars(_, _, _, _)
ConsumedChars(lines, lineIndex, advanceLines, i) ==
    LET last == Min(advanceLines, Len(lines) - lineIndex)
    IN  IF ~(i < last) THEN 0
        ELSE IF i + 1 = last THEN Len(lines[lineIndex + i + 1]) + 1
        ELSE LET mid == (i + last) \div 2
             IN  ConsumedChars(lines, lineIndex, mid, i)
                 + ConsumedChars(lines, lineIndex, advanceLines, mid)

RECURSIVE ByLinesLoop(_, _, _, _, _, _)
ByLinesLoop(lines, linesPerChunk, overlapLines, index, lineIndex, charOffset) ==
    IF ~(lineIndex < Len(lines)) THEN <<>>
    ELSE
        LET chunkLines   == slice(lines, lineIndex, lineIndex + linesPerChunk)
            chunkContent == join(chunkLines, NL)
            endOffset    == charOffset + Len(chunkContent)
            advanceLines == AdvanceLines(linesPerChunk, overlapLines)
            metadata     == [type |-> "lines", startLine |-> lineIndex,
                             endLine |-> Min(lineIndex + linesPerChunk, Len(lines)) - 1]
        IN  <<Chunk(index, chunkContent, charOffset, endOffset, metadata)>>
            \o ByLinesLoop(lines, linesPerChunk, overlapLines, index + 1,
                           lineIndex + advanceLines,
                           charOffset + ConsumedChars(lines, lineIndex, advanceLines, 0))

decomposeByLines(text, linesPerChunk, overlapLines) ==
    ByLinesLoop(split(text, NL), linesPerChunk, overlapLines, 0, 0, 0)

\* The index a chunk of decomposeByParagraphs and decomposeByRegex gets: the
\* forEach index of its part among all the parts of the split.
PartIndex(position, kept) == position

\* parts.forEach((part, index) => ...) of decomposeByParagraphs and
\* decomposeByRegex: i is the forEach index, offset the scan position.
RECURSIVE PartsLoop(_, _, _, _, _)
PartsLoop(text, parts, i, offset, kept) ==
    IF i >= Len(parts) THEN <<>>
    ELSE
        LET part == parts[i + 1]
        IN  IF trim(part) # <<>>
            THEN LET startOffset == indexOf(text, part, offset)
                 IN  <<Chunk(PartIndex(i, kept), trim(part), startOffset,
                             startOffset + Len(part), NoMetadata)>>
                     \o PartsLoop(text, parts, i + 1, startOffset + Len(part), kept + 1)
            ELSE PartsLoop(text, parts, i + 1, offset, kept)

decomposeByParagraphs(text) ==
    PartsLoop(text, splitRegex(text, RegExp("\\n\\n+", "g")), 0, 0, 0)

decomposeByRegex(text, pattern) ==
    PartsLoop(text, splitRegex(text, RegExp(pattern, "g")), 0, 0, 0)

LineStartAnywhere(s, p) == TRUE

\* ^ with the m flag: offset p is the start of the text or follows a line end.
LineStart(s, p) == p = 0 \/ s[p] = NL

\* /^(#{1,6})\s+(.+)$/gm at a line start p: 1 to 6 '#', then white space (which
\* may span line ends), then a title of at least one character up to the end of
\* its line.  \s+ is greedy and gives characters back until a title can start.
HeaderAt(s, p) ==
    LET hashes == RunIn(s, p, {"#"})
        spaces == RunIn(s, p + hashes, {" ", NL})
        starts == {i \in 1..spaces :
                      /\ p + hashes + i < Len(s)
                      /\ s[p + hashes + i + 1] # NL}
        from   == p + hashes + MaxOf(starts)
        to     == from + RunNotIn(s, from, {NL})
    IN  IF /\ LineStart(s, p)
           /\ hashes >= 1 /\ hashes <= 6
           /\ starts # {}
        THEN [start |-> p, level |-> hashes, title |-> slice(s, from, to), end |-> to]
        ELSE [start |-> -1, level |-> 0, title |-> <<>>, end |-> -1]

\* while ((match = sectionPattern.exec(content)) !== null) matches.push(...)
RECURSIVE SectionMatches(_, _)
SectionMatches(s, lastIndex) ==
    LET at == {p \in lastIndex..(Len(s) - 1) : HeaderAt(s, p).start = p}
    IN  IF at = {} THEN <<>>
        ELSE LET m == HeaderAt(s, MinOf(at))
             IN  <<m>> \o SectionMatches(s, m.end)

decomposeBySections(text) ==
    LET matches  == SectionMatches(text, 0)
        preamble ==
            IF matches[1].start > 0 /\ trim(slice(text, 0, matches[1].start)) # <<>>
            THEN <<Chunk(0, trim(slice(text, 0, matches[1].start)), 0,
                         matches[1].start, [type |-> "preamble"])>>
            ELSE <<>>
        sections ==
            [i \in 1..Len(matches) |->
                LET endOffset == IF i < Len(matches) THEN matches[i + 1].start
                                 ELSE Len(text)
                IN  Chunk(Len(preamble) + i - 1,
                          trim(slice(text, matches[i].start, endOffset)),
                          matches[i].start, endOffset,
                          [type |-> "section", level |-> matches[i].level,
                           title |-> matches[i].title])]
    IN  IF Len(matches) = 0
        THEN <<Chunk(0, text, 0, Len(text), NoMetadata)>>
        ELSE preamble \o sections

Terminators == {".", "!", "?"}

\* /[^.!?]+[.!?]+\s*/g from lastIndex on: the leftmost match starts at the first
\* character that is no terminator and needs a terminator after that run.
SentenceAt(s, lastIndex) ==
    LET start == lastIndex + RunIn(s, lastIndex, Terminators)
        body  == RunNotIn(s, start, Terminators)
        marks == RunIn(s, start + body, Terminators)
        tail  == RunIn(s, start + body + marks, {" ", NL})
    IN  IF body >= 1 /\ marks >= 1
        THEN [index |-> start, length |-> body + marks + tail]
        ELSE NoMatch

RECURSIVE SentencesLoop(_, _, _)
SentencesLoop(s, lastIndex, index) ==
    LET m == SentenceAt(s, lastIndex)
    IN  IF m.index = -1 THEN <<>>
        ELSE <<Chunk(index, trim(slice(s, m.index, m.index + m.length)),
                     m.index, m.index + m.length, NoMetadata)>>
             \o SentencesLoop(s, m.index + m.length, index + 1)

decomposeBySentences(text) ==
    LET sentences == SentencesLoop(text, 0, 0)
    IN  IF Len(sentences) = 0 /\ trim(text) # <<>>
        THEN <<Chunk(0, trim(text), 0, Len(text), NoMetadata)>>
        ELSE sentences

Strategies ==
    {"fixed_size", "by_lines", "by_paragraphs", "by_sections", "by_regex",
     "by_sentences"}

Options(chunkSize, overlap, linesPerChunk, pattern) ==
    [chunkSize |-> chunkSize, overlap |-> overlap,
     linesPerChunk |-> linesPerChunk, pattern |-> pattern]

\* The overlap decompose hands to decomposeBySize / decomposeByLines.
OverlapOrDefault(overlap, default) == OrNumber(overlap, default)

decompose(text, strategy, options) ==
    CASE strategy = "fixed_size" ->
            decomposeBySize(text,
                            OrNumber(options.chunkSize, DEFAULT_CHUNK_SIZE),
                            OverlapOrDefault(options.overlap, DEFAULT_OVERLAP))
      [] strategy = "by_lines" ->
            decomposeByLines(text,
                             OrNumber(options.linesPerChunk, DEFAULT_LINES_PER_CHUNK),
                             OverlapOrDefault(options.overlap, DEFAULT_BY_LINES_OVERLAP))
      [] strategy = "by_paragraphs" -> decomposeByParagraphs(text)
      [] strategy = "by_sections"   -> decomposeBySections(text)
      [] strategy = "by_regex" ->
            decomposeByRegex(text, OrString(options.pattern, DEFAULT_PATTERN))
      [] strategy = "by_sentences"  -> decomposeBySentences(text)
      [] OTHER -> decomposeBySize(text, DEFAULT_CHUNK_SIZE, DEFAULT_OVERLAP)

(***************************************************************************)
(* The decomposition engine called directly: one decompose call on a text. *)
(***************************************************************************)
Alphabet == {"a", " ", NL, "#", "."}

Strings(chars, n) == UNION {[1..k -> chars] : k \in 0..n}

Texts == Strings(Alphabet, MaxLen)

ChunkSizes == {Undefined, Some(-1), Some(0), Some(1), Some(2), Some(3)}
Overlaps == {Undefined, Some(-1), Some(0), Some(1), Some(2)}
LinesPerChunks == {Undefined, Some(1), Some(2), Some(3)}
Patterns == {Undefined, Some("#"), Some("\\.+"), Some(" ")}

\* The options a caller gives with each strategy; an option the strategy does
\* not read is left undefined.
DecomposeInputs ==
    {[strategy |-> "fixed_size", options |-> Options(c, o, Undefined, Undefined)] :
        c \in ChunkSizes, o \in Overlaps}
    \cup {[strategy |-> "by_lines", options |-> Options(Undefined, o, l, Undefined)] :
        l \in LinesPerChunks, o \in Overlaps}
    \cup {[strategy |-> "by_regex",
           options |-> Options(Undefined, Undefined, Undefined, p)] : p \in Patterns}
    \cup {[strategy |-> s,
           options |-> Options(Undefined, Undefined, Undefined, Undefined)] :
        s \in {"by_paragraphs", "by_sections", "by_sentences"}}

Init ==
    /\ content \in Texts
    /\ calls = <<>>
    /\ NewRegistry
    /\ NoDocumentation

\* contextProcessor.decompose(content, strategy, options)
Decompose(in) ==
    /\ calls = <<>>
    /\ calls' = <<[tool |-> "decompose", strategy |-> in.strategy,
                   options |-> in.options,
                   chunks |-> decompose(content, in.strategy, in.options)]>>
    /\ UNCHANGED <<tocVars, content, sessionVars>>

Next == \E in \in DecomposeInputs : Decompose(in)

Spec == Init /\ [][Next]_vars

DecomposeCalls == {i \in 1..Len(calls) : calls[i].tool = "decompose"}

RECURSIVE ConcatContents(_)
ConcatContents(chunks) ==
    IF Len(chunks) = 0 THEN <<>>
    ELSE chunks[1].content \o ConcatContents(Tail(chunks))

\* C1: fixed-size decomposition with chunkSize >= 1 and overlap 0: the chunk
\* contents concatenated in index order are the original text.
C1_ConcatenationIsText ==
    \A i \in DecomposeCalls :
        LET c == calls[i]
        IN  (/\ c.strategy = "fixed_size"
             /\ c.options.overlap = Some(0)
             /\ c.options.chunkSize # Undefined
             /\ c.options.chunkSize[1] >= 1)
            => ConcatContents(c.chunks) = content

\* C2: every chunk of every strategy has
\* 0 <= startOffset <= endOffset <= length of the text.
C2_OffsetsWithinText ==
    \A i \in DecomposeCalls :
        \A k \in 1..Len(calls[i].chunks) :
            LET ch == calls[i].chunks[k]
            IN  /\ 0 <= ch.startOffset
                /\ ch.startOffset <= ch.endOffset
                /\ ch.endOffset <= Len(content)

\* C3: the chunks of one decompose call have the indices 0, 1, ..., n-1 in
\* sequence order and non-decreasing start offsets.
C3_IndicesContiguous ==
    \A i \in DecomposeCalls :
        LET chunks == calls[i].chunks
        IN  /\ \A k \in 1..Len(chunks) : chunks[k].index = k - 1
            /\ \A k \in 1..(Len(chunks) - 1) :
                   chunks[k].startOffset <= chunks[k + 1].startOffset

\* C4: by-lines decomposition of the empty text gives no chunk, and of a text
\* without a newline exactly one chunk, for every linesPerChunk and overlap.
C4_ByLinesEdgeCases ==
    \A i \in DecomposeCalls :
        LET c == calls[i]
        IN  c.strategy = "by_lines" =>
                /\ content = <<>> => Len(c.chunks) = 0
                /\ (content # <<>> /\ \A k \in 1..Len(content) : content[k] # NL)
                       => Len(c.chunks) = 1

\* C5: by-lines decomposition with linesPerChunk = L and overlap = 0 of a text
\* of n lines gives ceil(n/L) chunks that share no line: chunk k holds the lines
\* k*L .. min((k+1)*L, n)-1 joined by newlines, starts at the offset of its
\* first line and ends at its start plus the length of its content.
C5_ByLinesNoOverlap ==
    \A i \in DecomposeCalls :
        LET c     == calls[i]
            lines == split(content, NL)
            n     == Len(lines)
            L     == c.options.linesPerChunk[1]
        IN  (/\ c.strategy = "by_lines"
             /\ c.options.linesPerChunk # Undefined
             /\ c.options.overlap = Some(0))
            =>  /\ Len(c.chunks) = (n + L - 1) \div L
                /\ \A k \in 0..(Len(c.chunks) - 1) :
                       LET ch   == c.chunks[k + 1]
                           text == join(slice(lines, k * L, Min((k + 1) * L, n)), NL)
                       IN  /\ ch.content = text
                           /\ ch.startOffset = Len(join(slice(lines, 0, k * L), NL))
                                               + (IF k = 0 THEN 0 ELSE 1)
                           /\ ch.endOffset = ch.startOffset + Len(text)

(***************************************************************************)
(* JSON.stringify(value, null, 2): the length of the text it returns.      *)
(* A number is written in decimal, a string in quotes with a newline       *)
(* escaped as two characters, an object or array with one member per line, *)
(* indented by two spaces per level.                                       *)
(***************************************************************************)
RECURSIVE Digits(_)
Digits(n) == IF n < 10 THEN 1 ELSE 1 + Digits(n \div 10)

NumberLength(n) == IF n < 0 THEN 1 + Digits(-n) ELSE Digits(n)

StringLength(s) == 2 + Len(s) + Cardinality({i \in 1..Len(s) : s[i] = NL})

BooleanLength(b) == IF b THEN 4 ELSE 5

\* A member "key": value, given the lengths of its key and of its value.
MemberLength(keyLength, valueLength) == keyLength + 2 + 2 + valueLength

\* The sum of lengths[lo..hi].
RECURSIVE SumRange(_, _, _)
SumRange(lengths, lo, hi) ==
    IF lo > hi THEN 0
    ELSE IF lo = hi THEN lengths[lo]
    ELSE LET mid == (lo + hi) \div 2
         IN  SumRange(lengths, lo, mid) + SumRange(lengths, mid + 1, hi)

\* An object or array at nesting level depth, given the lengths of its members.
BlockLength(members, depth) ==
    IF Len(members) = 0 THEN 2
    ELSE 1 + 1
         + SumRange(members, 1, Len(members)) + Len(members) * 2 * (depth + 1)
         + (Len(members) - 1) * 2
         + 1 + 2 * depth + 1

(***************************************************************************)
(* Tool handlers: rlm_decompose_context and rlm_get_chunks                 *)
(***************************************************************************)
\* The members one entry of output.chunks has, as the lengths of their lines.
MetadataMembers(metadata) ==
    CASE metadata.type = "lines" ->
            <<MemberLength(Len("startLine"), NumberLength(metadata.startLine)),
              MemberLength(Len("endLine"), NumberLength(metadata.endLine))>>
      [] metadata.type = "section" ->
            <<MemberLength(Len("level"), NumberLength(metadata.level)),
              MemberLength(Len("title"), StringLength(metadata.title)),
              MemberLength(Len("type"), 2 + Len("section"))>>
      [] metadata.type = "preamble" ->
            <<MemberLength(Len("type"), 2 + Len("preamble"))>>
      [] OTHER -> <<>>

EntryLength(entry) ==
    BlockLength(
        <<MemberLength(Len("index"), NumberLength(entry.index)),
          MemberLength(Len("start_offset"), NumberLength(entry.start_offset)),
          MemberLength(Len("end_offset"), NumberLength(entry.end_offset)),
          MemberLength(Len("length"), NumberLength(entry.length))>>
        \o MetadataMembers(entry.metadata)
        \o (IF entry.content = Undefined THEN <<>>
            ELSE <<MemberLength(Len("content"), StringLength(entry.content[1]))>>),
        2)

TruncationMessageLength(total) ==
    Len("Showing first 10 of ") + NumberLength(total)
    + Len(" chunks. Use rlm_get_chunks to retrieve specific chunks.")

\* JSON.stringify(output, null, 2).length for the output of rlm_decompose_context
SerializedLength(total, strategy, entries, truncated) ==
    BlockLength(
        <<MemberLength(Len("total_chunks"), NumberLength(total)),
          MemberLength(Len("strategy"), 2 + Len(strategy)),
          MemberLength(Len("chunks"),
                       BlockLength([k \in 1..Len(entries) |-> EntryLength(entries[k])], 1))>>
        \o (IF truncated
            THEN <<MemberLength(Len("truncated"), BooleanLength(TRUE)),
                   MemberLength(Len("message"), 2 + TruncationMessageLength(total))>>
            ELSE <<>>),
        0)

\* chunks.map(c => ({index, start_offset, end_offset, length, ...metadata, content?}))
FullEntry(c, return_content) ==
    [index |-> c.index, start_offset |-> c.startOffset, end_offset |-> c.endOffset,
     length |-> Len(c.content), metadata |-> c.metadata,
     content |-> IF return_content THEN Some(c.content) ELSE Undefined]

\* chunks.slice(0, 10).map(c => ({index, start_offset, end_offset, length}))
SummaryEntries(chunks) ==
    LET first == slice(chunks, 0, 10)
    IN  [k \in 1..Len(first) |->
            [index |-> first[k].index, start_offset |-> first[k].startOffset,
             end_offset |-> first[k].endOffset, length |-> Len(first[k].content),
             metadata |-> NoMetadata, content |-> Undefined]]

\* TooLarge with the limit taken ten times too large.
TooLargeTenfold(length) == length > 10 * CHARACTER_LIMIT

\* The test that decides whether the response is cut down to a summary.
TooLarge(length) == length > CHARACTER_LIMIT

\* The response of rlm_decompose_context, given the entries of every chunk,
\* the summary entries and the length full of the first JSON.stringify.
\* full_length is that length, text_length the length of the text returned.
TruncateIfTooLarge(total, strategy, entries, summary, full) ==
    IF TooLarge(full)
    THEN [total_chunks |-> total, strategy |-> strategy,
          chunks |-> summary, truncated |-> TRUE, full_length |-> full,
          text_length |-> SerializedLength(total, strategy, summary, TRUE)]
    ELSE [total_chunks |-> total, strategy |-> strategy,
          chunks |-> entries, truncated |-> FALSE, full_length |-> full,
          text_length |-> full]

\* The output built from the entries, serialized and cut down when too large.
SerializeOutput(total, strategy, entries, summary) ==
    TruncateIfTooLarge(total, strategy, entries, summary,
                       SerializedLength(total, strategy, entries, FALSE))

\* The output built from the chunks decompose returned.
BuildOutput(chunks, strategy, return_content) ==
    SerializeOutput(Len(chunks), strategy,
                    [k \in 1..Len(chunks) |-> FullEntry(chunks[k], return_content)],
                    SummaryEntries(chunks))

\* The body of the rlm_decompose_context handler for a context that exists.
DecomposeContextOutput(text, p) ==
    BuildOutput(decompose(text, p.strategy,
                          Options(Some(p.chunk_size), Some(p.overlap),
                                  Some(p.lines_per_chunk), p.pattern)),
                p.strategy, p.return_content)

\* ValidIndex with the lower bound off by one: index 0 is dropped.
ValidIndexFromOne(i, total) == i > 0 /\ i < total

\* The filter of rlm_get_chunks on a requested index.
ValidIndex(i, total) == i >= 0 /\ i < total

\* .map(i => ({index: i, content, start_offset, end_offset})) on the indices kept
MapChunks(allChunks, kept) ==
    [k \in 1..Len(kept) |->
        [index |-> kept[k],
         content |-> allChunks[kept[k] + 1].content,
         start_offset |-> allChunks[kept[k] + 1].startOffset,
         end_offset |-> allChunks[kept[k] + 1].endOffset]]

\* params.chunk_indices.filter(...).map(...)
RequestedChunks(allChunks, chunk_indices) ==
    MapChunks(allChunks,
              SelectSeq(chunk_indices, LAMBDA i : ValidIndex(i, Len(allChunks))))

\* The output of rlm_get_chunks, given the chunks selected.
GetChunksResult(chunk_indices, chunks) ==
    [requested |-> Len(chunk_indices), returned |-> Len(chunks), chunks |-> chunks]

\* The body of the rlm_get_chunks handler for a context that exists.
GetChunksOutput(text, p) ==
    GetChunksResult(p.chunk_indices,
                    RequestedChunks(decompose(text, p.strategy,
                                              Options(Some(p.chunk_size), Some(p.overlap),
                                                      Undefined, Undefined)),
                                    p.chunk_indices))

DecomposeParams(strategy, chunk_size, overlap, lines_per_chunk, pattern, return_content) ==
    [strategy |-> strategy, chunk_size |-> chunk_size, overlap |-> overlap,
     lines_per_chunk |-> lines_per_chunk, pattern |-> pattern,
     return_content |-> return_content]

GetChunksParams(chunk_indices, strategy, chunk_size, overlap) ==
    [chunk_indices |-> chunk_indices, strategy |-> strategy,
     chunk_size |-> chunk_size, overlap |-> overlap]

\* rlm_decompose_context on the loaded context
DecomposeContext(p) ==
    /\ calls = <<>>
    /\ Len(content) >= 1
    /\ calls' = <<[tool |-> "decompose_context", params |-> p,
                   out |-> DecomposeContextOutput(content, p)]>>
    /\ UNCHANGED <<tocVars, content, sessionVars>>

\* rlm_get_chunks on the loaded context: the first call, or the call that
\* follows rlm_decompose_context with the same strategy, chunk_size and overlap.
GetChunks(p) ==
    /\ Len(content) >= 1
    /\ \/ calls = <<>>
       \/ /\ Len(calls) = 1
          /\ calls[1].tool = "decompose_context"
          /\ calls[1].params.strategy = p.strategy
          /\ calls[1].params.chunk_size = p.chunk_size
          /\ calls[1].params.overlap = p.overlap
    /\ calls' = Append(calls, [tool |-> "get_chunks", params |-> p,
                               out |-> GetChunksOutput(content, p)])
    /\ UNCHANGED <<tocVars, content, sessionVars>>

(***************************************************************************)
(* The chunk tools on a loaded context (load_context accepts no empty      *)
(* context): decompose_context, then get_chunks.                           *)
(***************************************************************************)
ToolTexts == Strings(Alphabet, MaxToolLen) \ {<<>>}

ToolDecomposeParams ==
    {DecomposeParams("fixed_size", c, o, DEFAULT_LINES_PER_CHUNK, Undefined, r) :
        c \in {100, DEFAULT_CHUNK_SIZE}, o \in {0, DEFAULT_OVERLAP}, r \in BOOLEAN}
    \cup {DecomposeParams("by_lines", DEFAULT_CHUNK_SIZE, o, l, Undefined, r) :
        o \in {0, DEFAULT_OVERLAP}, l \in {1, 2, DEFAULT_LINES_PER_CHUNK}, r \in BOOLEAN}
    \cup {DecomposeParams("by_regex", DEFAULT_CHUNK_SIZE, DEFAULT_OVERLAP,
                          DEFAULT_LINES_PER_CHUNK, p, r) :
        p \in {Undefined, Some("#"), Some("\\.+")}, r \in BOOLEAN}
    \cup {DecomposeParams(s, DEFAULT_CHUNK_SIZE, DEFAULT_OVERLAP,
                          DEFAULT_LINES_PER_CHUNK, Undefined, r) :
        s \in {"by_paragraphs", "by_sections", "by_sentences"}, r \in BOOLEAN}

IndexValues == {0, 1, 7}
IndexLists == {<<i>> : i \in IndexValues} \cup {<<i, j>> : i, j \in IndexValues}

ToolGetChunksParams ==
    {GetChunksParams(ix, "fixed_size", c, o) :
        ix \in IndexLists, c \in {-1, 1, 2, 100, DEFAULT_CHUNK_SIZE},
        o \in {0, 1, DEFAULT_OVERLAP}}
    \cup {GetChunksParams(ix, "by_lines", DEFAULT_CHUNK_SIZE, o) :
        ix \in IndexLists, o \in {0, DEFAULT_OVERLAP}}
    \cup {GetChunksParams(ix, s, DEFAULT_CHUNK_SIZE, DEFAULT_OVERLAP) :
        ix \in IndexLists,
        s \in {"by_paragraphs", "by_sections", "by_regex", "by_sentences"}}

InitTools ==
    /\ content \in ToolTexts
    /\ calls = <<>>
    /\ NewRegistry
    /\ NoDocumentation

NextTools ==
    \/ \E p \in ToolDecomposeParams : DecomposeContext(p)
    \/ \E p \in ToolGetChunksParams : GetChunks(p)

SpecTools == InitTools /\ [][NextTools]_vars

\* C6: called with the same strategy, chunk_size and overlap, get_chunks returns
\* for every valid index i the chunk decompose_context reports for index i:
\* the same index, offsets and content.
C6_GetChunksMatchesDecompose ==
    (Len(calls) = 2 /\ calls[1].tool = "decompose_context"
                    /\ calls[2].tool = "get_chunks")
    =>  LET reported  == calls[1].out.chunks
            requested == calls[2].params.chunk_indices
            returned  == calls[2].out.chunks
        IN  \A k \in 1..Len(reported) :
                reported[k].index \in {requested[j] : j \in 1..Len(requested)}
                =>  \E j \in 1..Len(returned) :
                        /\ returned[j].index = reported[k].index
                        /\ returned[j].start_offset = reported[k].start_offset
                        /\ returned[j].end_offset = reported[k].end_offset
                        /\ Len(returned[j].content) = reported[k].length
                        /\ reported[k].content # Undefined
                               => returned[j].content = reported[k].content[1]

GetChunksCalls == {i \in 1..Len(calls) : calls[i].tool = "get_chunks"}

\* The chunks the context has under the options rlm_get_chunks passes on.
ChunkCount(p) ==
    Len(decompose(content, p.strategy,
                  Options(Some(p.chunk_size), Some(p.overlap), Undefined, Undefined)))

\* The output out of get_chunks(p) lists exactly the requested indices below
\* total, in request order, and counts them.
ExactlyInRange(p, out, total) ==
    LET inRange == SelectSeq(p.chunk_indices, LAMBDA i : 0 <= i /\ i < total)
    IN  /\ Len(out.chunks) = Len(inRange)
        /\ \A k \in 1..Len(inRange) : out.chunks[k].index = inRange[k]
        /\ out.requested = Len(p.chunk_indices)
        /\ out.returned = Len(out.chunks)
        /\ (\E j \in 1..Len(p.chunk_indices) :
                ~(0 <= p.chunk_indices[j] /\ p.chunk_indices[j] < total))
           => out.returned < out.requested

\* C7: get_chunks returns exactly the requested indices i with
\* 0 <= i < total chunk count, in request order; requested is the number of
\* indices asked for, returned the number of chunks returned, and
\* returned < requested whenever a requested index is out of range.
C7_OnlyValidIndicesReturned ==
    \A c \in GetChunksCalls :
        ExactlyInRange(calls[c].params, calls[c].out, ChunkCount(calls[c].params))

\* A get_chunks call that asked for a valid and an out-of-range index.
C7_Witness ==
    \E c \in GetChunksCalls :
        /\ calls[c].out.returned >= 1
        /\ calls[c].out.returned < calls[c].out.requested
        /\ \E k \in 1..Len(calls[c].out.chunks) : calls[c].out.chunks[k].index >= 1

(***************************************************************************)
(* decompose_context on long contexts: the size cap of the response.       *)
(***************************************************************************)
Repeat(c, n) == [i \in 1..n |-> c]

LongTexts == {Repeat("a", n) : n \in {1, 150, 950, 1000, 1100, 2500, 100050}}

\* The calls made on a context: every strategy on the contexts of up to a few
\* thousand characters, one chunk per call on the context longer than the cap.
ResponseDecomposeParams(text) ==
    {DecomposeParams("fixed_size", c, o, DEFAULT_LINES_PER_CHUNK, Undefined, r) :
        c \in IF Len(text) > CHARACTER_LIMIT THEN {200000} ELSE {100, 101, 200, 200000},
        o \in {0, 50, 99, 10000}, r \in BOOLEAN}
    \cup {DecomposeParams(s, DEFAULT_CHUNK_SIZE, DEFAULT_OVERLAP,
                          DEFAULT_LINES_PER_CHUNK, Undefined, r) :
        s \in IF Len(text) > CHARACTER_LIMIT THEN {} ELSE Strategies \ {"fixed_size"},
        r \in BOOLEAN}

InitResponse ==
    /\ content \in LongTexts
    /\ calls = <<>>
    /\ NewRegistry
    /\ NoDocumentation

NextResponse == \E p \in ResponseDecomposeParams(content) : DecomposeContext(p)

SpecResponse == InitResponse /\ [][NextResponse]_vars

DecomposeContextCalls == {i \in 1..Len(calls) : calls[i].tool = "decompose_context"}

\* The output out of decompose_context(p) is within the limit and lists the
\* chunks of the decomposition, all of them or the first 10 in short form.
CappedListing(p, out, chunks) ==
    /\ out.text_length <= CHARACTER_LIMIT
    /\ out.total_chunks = Len(chunks)
    /\ out.truncated = (out.full_length > CHARACTER_LIMIT)
    /\ Len(out.chunks) = IF out.truncated THEN Min(10, Len(chunks))
                         ELSE Len(chunks)
    /\ \A k \in 1..Len(out.chunks) :
           /\ out.chunks[k].index = chunks[k].index
           /\ out.chunks[k].start_offset = chunks[k].startOffset
           /\ out.chunks[k].end_offset = chunks[k].endOffset
           /\ out.chunks[k].length = Len(chunks[k].content)
           /\ out.truncated => /\ out.chunks[k].content = Undefined
                               /\ out.chunks[k].metadata = NoMetadata
           /\ (~out.truncated /\ p.return_content)
                  => out.chunks[k].content = Some(chunks[k].content)

\* C8: the text decompose_context returns is never longer than CHARACTER_LIMIT.
\* When the full serialization is longer, the response lists only index,
\* offsets and length of the first 10 chunks, without content and metadata, and
\* is marked truncated; otherwise it lists every chunk and is not marked.
\* total_chunks is the full chunk count in both cases.
C8_ResponseWithinLimit ==
    \A c \in DecomposeContextCalls :
        CappedListing(calls[c].params, calls[c].out,
                      decompose(content, calls[c].params.strategy,
                                Options(Some(calls[c].params.chunk_size),
                                        Some(calls[c].params.overlap),
                                        Some(calls[c].params.lines_per_chunk),
                                        calls[c].params.pattern)))

\* A response that was cut down: more than 10 chunks, 10 listed.
C8_Witness ==
    \E c \in DecomposeContextCalls :
        /\ calls[c].out.truncated
        /\ calls[c].out.total_chunks > 10
        /\ Len(calls[c].out.chunks) = 10

(***************************************************************************)
(* ContextProcessor: search and findAll                                    *)
(***************************************************************************)
\* A destructuring default: it replaces undefined only.
OrDefault(v, d) == IF v = Undefined THEN d ELSE v[1]

\* lastIndex of a RegExp object that is kept from one call to the next.
KeptRegExpLastIndex(previous) == previous

\* lastIndex of the RegExp object search works with: search builds a new
\* object on every call, whatever an earlier call left behind.
NewRegExpLastIndex(previous) == 0

\* content.slice(0, match.index).split('\n').length
LineNumber(s, index) == Len(split(slice(s, 0, index), NL))

ContextEndFromIndex(length, index, matchLength, contextChars) ==
    Min(length, index + contextChars)

\* Math.min(content.length, match.index + match[0].length + contextChars)
ContextEnd(length, index, matchLength, contextChars) ==
    Min(length, index + matchLength + contextChars)

\* The while loop of search.  regex.exec scans from lastIndex when the regex
\* is global and from 0 when it is not; only a global regex has its lastIndex
\* moved by exec (to the end of the match, to 0 when there is none).
RECURSIVE SearchLoop(_, _, _, _, _, _, _)
SearchLoop(s, re, contextChars, maxResults, includeLineNumbers, lastIndex, results) ==
    LET m         == exec(s, re, IF re.global THEN lastIndex ELSE 0)
        afterExec == IF ~re.global THEN lastIndex
                     ELSE IF m.index = -1 THEN 0 ELSE m.index + m.length
        start     == Max(0, m.index - contextChars)
        end       == ContextEnd(Len(s), m.index, m.length, contextChars)
        found     == [match |-> slice(s, m.index, m.index + m.length),
                      index |-> m.index,
                      lineNumber |-> IF includeLineNumbers
                                     THEN LineNumber(s, m.index) ELSE 0,
                      context |-> slice(s, start, end),
                      groups |-> <<>>]
    IN  IF m.index # -1 /\ Len(results) < maxResults
        THEN SearchLoop(s, re, contextChars, maxResults, includeLineNumbers,
                        IF m.length = 0 THEN afterExec + 1 ELSE afterExec,
                        Append(results, found))
        ELSE [results |-> results, lastIndex |-> afterExec, thrown |-> FALSE]

\* search(content, pattern, options); previous is the lastIndex the call before
\* left.  A pattern or flags that do not compile throw inside the try block and
\* the empty result list is returned.  thrown tells whether the call ends by
\* an exception: never, the catch block swallows the SyntaxError.
search(s, pattern, options, previous) ==
    LET flags              == OrDefault(options.flags, "gi")
        contextChars       == OrDefault(options.contextChars, 100)
        maxResults         == OrDefault(options.maxResults, MAX_SEARCH_RESULTS)
        includeLineNumbers == OrDefault(options.includeLineNumbers, TRUE)
    IN  IF ValidPattern(pattern) /\ ValidFlags(flags)
        THEN SearchLoop(s, RegExp(pattern, flags), contextChars, maxResults,
                        includeLineNumbers, NewRegExpLastIndex(previous), <<>>)
        ELSE [results |-> <<>>, lastIndex |-> previous, thrown |-> FALSE]

\* Two code units beyond ASCII: U+0130, the capital I with a dot above, and
\* U+0307, the combining dot above.
CapitalIWithDot == "U+0130"
CombiningDot == "U+0307"

\* The lower case of one code unit.  U+0130 has a lower case of two code
\* units, "i" followed by U+0307.
LowerCaseOf(c) == IF c = CapitalIWithDot THEN <<"i", CombiningDot>> ELSE <<Lower(c)>>

\* String.prototype.toLowerCase()
RECURSIVE toLowerCase(_)
toLowerCase(s) ==
    IF s = <<>> THEN <<>> ELSE LowerCaseOf(Head(s)) \o toLowerCase(Tail(s))

\* Where findAll resumes after an occurrence: behind its end.
FindAllResume(index, searchTerm) == index + Len(searchTerm)

\* The while loop of findAll
RECURSIVE FindAllLoop(_, _, _)
FindAllLoop(searchContent, searchTerm, index) ==
    LET at == indexOf(searchContent, searchTerm, index)
    IN  IF at = -1 THEN <<>>
        ELSE <<at>> \o FindAllLoop(searchContent, searchTerm,
                                   FindAllResume(at, searchTerm))

findAll(s, substring, caseSensitive) ==
    LET searchContent == IF caseSensitive THEN s ELSE toLowerCase(s)
        searchTerm    == IF caseSensitive THEN substring ELSE toLowerCase(substring)
    IN  FindAllLoop(searchContent, searchTerm, 0)

(***************************************************************************)
(* Tool handlers: rlm_search_context and rlm_find_all                      *)
(***************************************************************************)
SearchParams(pattern, flags, context_chars, max_results, include_line_numbers) ==
    [pattern |-> pattern, flags |-> flags, context_chars |-> context_chars,
     max_results |-> max_results, include_line_numbers |-> include_line_numbers]

\* The lastIndex the latest search call left; 0 before the first one.
PreviousLastIndex ==
    IF Len(calls) > 0 /\ calls[Len(calls)].tool = "search_context"
    THEN calls[Len(calls)].lastIndex ELSE 0

\* The try/catch of the rlm_search_context handler around the search call:
\* the output with the matches, or the error text when search threw.
SearchContextOutput(p, found) ==
    IF found.thrown
    THEN [error |-> "Error: Invalid regex pattern", pattern |-> p.pattern,
          total_matches |-> 0, matches |-> <<>>]
    ELSE [error |-> "", pattern |-> p.pattern,
          total_matches |-> Len(found.results), matches |-> found.results]

\* rlm_search_context on the loaded context: the first call, or the same call
\* made a second time.
SearchContext(p) ==
    /\ Len(content) >= 1
    /\ \/ calls = <<>>
       \/ Len(calls) = 1 /\ calls[1].tool = "search_context" /\ calls[1].params = p
    /\ LET found == search(content, p.pattern,
                           [flags |-> Some(p.flags),
                            contextChars |-> Some(p.context_chars),
                            maxResults |-> Some(p.max_results),
                            includeLineNumbers |-> Some(p.include_line_numbers)],
                           PreviousLastIndex)
       IN  calls' = Append(calls,
                       [tool |-> "search_context", params |-> p,
                        lastIndex |-> found.lastIndex,
                        out |-> SearchContextOutput(p, found)])
    /\ UNCHANGED <<tocVars, content, sessionVars>>

\* rlm_find_all on the loaded context
FindAll(substring, case_sensitive) ==
    /\ Len(content) >= 1
    /\ calls = <<>>
    /\ LET indices == findAll(content, substring, case_sensitive)
       IN  calls' = <<[tool |-> "find_all", substring |-> substring,
                       case_sensitive |-> case_sensitive,
                       out |-> [count |-> Len(indices), offsets |-> indices]]>>
    /\ UNCHANGED <<tocVars, content, sessionVars>>

(***************************************************************************)
(* The search tools on a loaded context.                                   *)
(***************************************************************************)
SearchAlphabet == {"a", "A", "b", NL, CapitalIWithDot}

ExampleText == <<"A", "b", "c", "A", "B", "C", "a", "b", "c">>

SearchTexts == (Strings(SearchAlphabet, MaxSearchLen) \ {<<>>}) \cup {ExampleText}

SearchInputs ==
    {SearchParams(p, f, c, m, l) :
        p \in {"a", "a+", "a*", "("}, f \in {"gi", "g", "i", "", "x"},
        c \in {0, 1}, m \in {1, 3}, l \in BOOLEAN}

Substrings ==
    (Strings({"a", "A", "b"}, 2) \ {<<>>}) \cup {<<"a", "b", "c">>}

InitSearch ==
    /\ content \in SearchTexts
    /\ calls = <<>>
    /\ NewRegistry
    /\ NoDocumentation

NextSearch ==
    \/ \E p \in SearchInputs : SearchContext(p)
    \/ \E sub \in Substrings, cs \in BOOLEAN : FindAll(sub, cs)

SpecSearch == InitSearch /\ [][NextSearch]_vars

SearchCalls == {i \in 1..Len(calls) : calls[i].tool = "search_context"}

\* C9: two search calls with the same text, pattern, flags and options return
\* the same sequence of matches, and the matches of one result are in
\* ascending order of index.
C9_SearchDeterministicOrdered ==
    /\ \A i, j \in SearchCalls :
           calls[i].params = calls[j].params
               => calls[i].out.matches = calls[j].out.matches
    /\ \A i \in SearchCalls :
           LET matches == calls[i].out.matches
           IN  \A k \in 1..(Len(matches) - 1) :
                   matches[k].index <= matches[k + 1].index

\* The same search made twice, the first stopped by max_results before the
\* end of the text, and more than one match found.
C9_Witness ==
    /\ Len(calls) = 2
    /\ calls[1].tool = "search_context" /\ calls[2].tool = "search_context"
    /\ calls[1].params = calls[2].params
    /\ calls[1].lastIndex > 0
    /\ Len(calls[2].out.matches) >= 2
    /\ calls[2].out.matches[1].index < calls[2].out.matches[2].index

\* C11: search_context called with a pattern or flags that do not compile
\* returns the error message "Invalid regex pattern" and not a result with
\* total_matches = 0.
C11_InvalidPatternIsError ==
    \A i \in SearchCalls :
        ~(ValidPattern(calls[i].params.pattern) /\ ValidFlags(calls[i].params.flags))
            => calls[i].out.error = "Error: Invalid regex pattern"

FindAllCalls == {i \in 1..Len(calls) : calls[i].tool = "find_all"}

\* substring occurs in the text at offset o, letter case ignored unless
\* caseSensitive.
OccursAt(text, substring, o, caseSensitive) ==
    /\ 0 <= o /\ o + Len(substring) <= Len(text)
    /\ \A k \in 1..Len(substring) :
           IF caseSensitive THEN text[o + k] = substring[k]
           ELSE Lower(text[o + k]) = Lower(substring[k])

\* C10: findAll returns in strictly ascending order exactly the offsets a
\* left-to-right scan finds that resumes behind each occurrence found: an
\* offset is returned if and only if the substring occurs there and no
\* returned occurrence to its left reaches into it.  Without caseSensitive
\* letter case is ignored: "abc" is found in "AbcABCabc" at 0, 3 and 6.
C10_FindAllOffsets ==
    \A c \in FindAllCalls :
        LET sub     == calls[c].substring
            cs      == calls[c].case_sensitive
            offsets == calls[c].out.offsets
            found   == {offsets[k] : k \in 1..Len(offsets)}
        IN  /\ \A k \in 1..(Len(offsets) - 1) : offsets[k] < offsets[k + 1]
            /\ \A o \in 0..Len(content) :
                   o \in found <=>
                       /\ OccursAt(content, sub, o, cs)
                       /\ \A g \in found : ~(g < o /\ o < g + Len(sub))
            /\ (content = ExampleText /\ sub = <<"a", "b", "c">> /\ ~cs)
                   => offsets = <<0, 3, 6>>

(***************************************************************************)
(* SessionManager (services/session-manager.js), the registry of sessions. *)
(* A session id is a pair: DefaultId for the well-known default session,   *)
(* SessionId(n) for the n-th session createSession has made.  A map is a   *)
(* function on its keys.                                                   *)
(***************************************************************************)
MAX_SESSIONS == 100
SESSION_TIMEOUT_MS == 3600000
CODE_EXECUTION_TIMEOUT_MS == 30000

DefaultId == <<"default", 0>>
SessionId(n) == <<"session", n>>

\* Map.prototype.set and Map.prototype.delete
Put(map, key, value) ==
    [k \in (DOMAIN map) \cup {key} |-> IF k = key THEN value ELSE map[k]]
Remove(map, key) == [k \in (DOMAIN map) \ {key} |-> map[k]]

\* A session as created at time t
NewSession(t) ==
    [createdAt |-> t, lastActivityAt |-> t, contexts |-> <<>>,
     variables |-> <<>>, executionHistory |-> <<>>]

\* The sessions that are least recently active.
OldestSessions(ss) ==
    {id \in DOMAIN ss :
        \A other \in DOMAIN ss : ss[id].lastActivityAt <= ss[other].lastActivityAt}

\* The sessions the capacity policy may evict before the next one is admitted:
\* one of the least recently active ones when the registry is full.
NoVictim == <<"none", 0>>

VictimsWhenOverfull(ss) ==
    IF Cardinality(DOMAIN ss) > MAX_SESSIONS THEN OldestSessions(ss) ELSE {NoVictim}

Victims(ss) ==
    IF Cardinality(DOMAIN ss) >= MAX_SESSIONS THEN OldestSessions(ss) ELSE {NoVictim}

\* The registry with the session id admitted at time t, victim evicted first
\* when the registry is full.
Admit(ss, id, t, victim) ==
    Put(IF victim = NoVictim THEN ss ELSE Remove(ss, victim), id, NewSession(t))

\* A bound operation refreshes lastActivityAt.
Touch(ss, id, t) == [ss EXCEPT ![id].lastActivityAt = t]

\* getSession(id): the registry after the call; the session is found when id
\* is in it.
getSession(ss, id, t) == IF id \in DOMAIN ss THEN Touch(ss, id, t) ELSE ss

\* getDefaultSession(): creates the default session on first use.
getDefaultSession(ss, t, victim) ==
    IF DefaultId \in DOMAIN ss THEN Touch(ss, DefaultId, t)
    ELSE Admit(ss, DefaultId, t, victim)

\* The lookup the methods taking a session id start with: the default session
\* is created on first touch, any other id must be in the registry.
Resolve(ss, id, t, victim) ==
    IF id = DefaultId THEN getDefaultSession(ss, t, victim) ELSE getSession(ss, id, t)

\* setVariable(sessionId, name, value): nothing happens when there is no such
\* session.
setVariable(ss, id, name, value, t, victim) ==
    LET found == Resolve(ss, id, t, victim)
    IN  IF id \in DOMAIN found
        THEN [found EXCEPT ![id].variables = Put(@, name, value)]
        ELSE found

\* getVariable(sessionId, name): undefined when there is no such session or
\* no such variable.
getVariable(ss, id, name) ==
    IF id \in DOMAIN ss /\ name \in DOMAIN ss[id].variables
    THEN Some(ss[id].variables[name]) ELSE Undefined

\* clearSession(sessionId): contexts, variables and history are reset, the
\* identity is kept.
clearSession(ss, id, t, victim) ==
    LET found == Resolve(ss, id, t, victim)
    IN  IF id \in DOMAIN found
        THEN [found EXCEPT ![id].contexts = <<>>, ![id].variables = <<>>,
                           ![id].executionHistory = <<>>]
        ELSE found

\* loadContext(sessionId, contextId, content) on a session that exists: the
\* context replaces the one loaded under the same id.
loadContext(ss, id, context_id, text, t) ==
    [ss EXCEPT ![id].contexts =
        Put(@, context_id,
            [content |-> text, createdAt |-> t, metadata |-> [length |-> Len(text)]]),
               ![id].lastActivityAt = t]

(***************************************************************************)
(* JSON values: a variable holds a tagged value.                           *)
(***************************************************************************)
NumberValue(n) == [type |-> "number", number |-> n]
StringValue(str) == [type |-> "string", string |-> str]
AnswerValue(text, ready) == [type |-> "answer", content |-> text, ready |-> ready]

\* The values JavaScript takes for false in  v || d
Falsy(v) == v = NumberValue(0) \/ v = StringValue("")

(***************************************************************************)
(* Tool handlers on sessions.  A handler answers with its output or, on a  *)
(* failure, with a text only.  The record of a call in calls holds the     *)
(* tool, the session_id and the other parameters given, the result, and    *)
(* two observations: known, whether the session named was in the registry  *)
(* when the call came in (a call that names none is known), and changed,   *)
(* whether the call changed the registry.                                  *)
(***************************************************************************)
SessionIdOrMain(session_id) ==
    IF session_id = Undefined THEN <<"main", 0>> ELSE session_id[1]

\* params.session_id || 'default'
SessionIdOrDefault(session_id) ==
    IF session_id = Undefined THEN DefaultId ELSE session_id[1]

\* params.session_id ? getSession(params.session_id) : getDefaultSession()
SessionOrDefault(ss, session_id, t, victim) ==
    IF session_id = Undefined THEN getDefaultSession(ss, t, victim)
    ELSE getSession(ss, session_id[1], t)

ErrorText(text) == [text |-> text]

Logged(tool, session_id, params, out) ==
    Append(calls, [tool |-> tool, session_id |-> session_id, params |-> params,
                   out |-> out,
                   known |-> (session_id = Undefined
                                  \/ session_id[1] \in DOMAIN sessions),
                   changed |-> (sessions' # sessions)])

\* rlm_load_context
LoadContextOutput(found, id, context_id, text) ==
    IF id \in DOMAIN found
    THEN [success |-> TRUE, context_id |-> context_id, session_id |-> id,
          metadata |-> [length |-> Len(text)]]
    ELSE ErrorText("Error: Session not found")

LoadContext(session_id, context_id, text) ==
    \E victim \in Victims(sessions) :
        LET id    == SessionIdOrDefault(session_id)
            found == SessionOrDefault(sessions, session_id, now, victim)
        IN  /\ sessions' = IF id \in DOMAIN found
                           THEN loadContext(found, id, context_id, text, now)
                           ELSE found
            /\ calls' = Logged("load_context", session_id,
                               [context_id |-> context_id, context |-> text],
                               LoadContextOutput(found, id, context_id, text))
            /\ UNCHANGED <<tocVars, content, created, now, running>>

\* rlm_get_context_info, without the preview
GetContextInfoOutput(found, id, context_id) ==
    IF id \in DOMAIN found /\ context_id \in DOMAIN found[id].contexts
    THEN [context_id |-> context_id,
          metadata |-> found[id].contexts[context_id].metadata,
          created_at |-> found[id].contexts[context_id].createdAt]
    ELSE ErrorText("Error: Context not found")

GetContextInfo(session_id, context_id) ==
    \E victim \in Victims(sessions) :
        /\ sessions' = SessionOrDefault(sessions, session_id, now, victim)
        /\ calls' = Logged("get_context_info", session_id,
                           [context_id |-> context_id],
                           GetContextInfoOutput(sessions',
                                                SessionIdOrDefault(session_id),
                                                context_id))
        /\ UNCHANGED <<tocVars, content, created, now, running>>

\* rlm_set_variable
SetVariable(session_id, name, value) ==
    \E victim \in Victims(sessions) :
        /\ sessions' = setVariable(sessions, SessionIdOrDefault(session_id),
                                   name, value, now, victim)
        /\ calls' = Logged("set_variable", session_id,
                           [name |-> name, value |-> value],
                           [success |-> TRUE, name |-> name])
        /\ UNCHANGED <<tocVars, content, created, now, running>>

\* rlm_get_variable
GetVariableOutput(name, value) ==
    IF value = Undefined THEN ErrorText("Variable not found")
    ELSE [name |-> name, value |-> value[1]]

GetVariable(session_id, name) ==
    \E victim \in Victims(sessions) :
        /\ sessions' = Resolve(sessions, SessionIdOrDefault(session_id), now, victim)
        /\ calls' = Logged("get_variable", session_id, [name |-> name],
                           GetVariableOutput(name,
                               getVariable(sessions',
                                           SessionIdOrDefault(session_id), name)))
        /\ UNCHANGED <<tocVars, content, created, now, running>>

\* rlm_set_answer: the answer is kept as the variable 'answer'.
SetAnswer(session_id, text, ready) ==
    \E victim \in Victims(sessions) :
        /\ sessions' = setVariable(sessions, SessionIdOrDefault(session_id),
                                   "answer", AnswerValue(text, ready), now, victim)
        /\ calls' = Logged("set_answer", session_id,
                           [content |-> text, ready |-> ready],
                           [success |-> TRUE, ready |-> ready,
                            content_length |-> Len(text)])
        /\ UNCHANGED <<tocVars, content, created, now, running>>

\* answer || { content: '', ready: false }
AnswerOrEmpty(answer) ==
    IF answer = Undefined \/ Falsy(answer[1]) THEN AnswerValue("", FALSE) ELSE answer[1]

\* rlm_get_answer
GetAnswer(session_id) ==
    \E victim \in Victims(sessions) :
        /\ sessions' = Resolve(sessions, SessionIdOrDefault(session_id), now, victim)
        /\ calls' = Logged("get_answer", session_id, <<>>,
                           AnswerOrEmpty(
                               getVariable(sessions',
                                           SessionIdOrDefault(session_id),
                                           "answer")))
        /\ UNCHANGED <<tocVars, content, created, now, running>>

\* rlm_create_session
CreateSession ==
    \E victim \in Victims(sessions) :
        /\ sessions' = Admit(sessions, SessionId(created + 1), now, victim)
        /\ created' = created + 1
        /\ calls' = Logged("create_session", Undefined, <<>>,
                           [session_id |-> SessionId(created + 1),
                            created_at |-> now])
        /\ UNCHANGED <<tocVars, content, now, running>>

GetSessionInfoOutputOfAny(found, id) ==
    IF id \in DOMAIN found
    THEN [session_id |-> id,
          created_at |-> found[id].createdAt,
          last_activity |-> found[id].lastActivityAt,
          contexts |-> {[id |-> c, length |-> found[id].contexts[c].metadata.length] :
                           c \in DOMAIN found[id].contexts},
          variables |-> DOMAIN found[id].variables,
          execution_count |-> Len(found[id].executionHistory)]
    ELSE [session_id |-> id, created_at |-> 0, last_activity |-> 0,
          contexts |-> {}, variables |-> {}, execution_count |-> 0]

\* rlm_get_session_info.  contexts and variables are listed as sets.
GetSessionInfoOutput(found, id) ==
    IF id \in DOMAIN found
    THEN [session_id |-> id,
          created_at |-> found[id].createdAt,
          last_activity |-> found[id].lastActivityAt,
          contexts |-> {[id |-> c, length |-> found[id].contexts[c].metadata.length] :
                           c \in DOMAIN found[id].contexts},
          variables |-> DOMAIN found[id].variables,
          execution_count |-> Len(found[id].executionHistory)]
    ELSE ErrorText("Error: Session not found")

GetSessionInfo(session_id) ==
    \E victim \in Victims(sessions) :
        /\ sessions' = SessionOrDefault(sessions, session_id, now, victim)
        /\ calls' = Logged("get_session_info", session_id, <<>>,
                           GetSessionInfoOutput(sessions',
                                                SessionIdOrDefault(session_id)))
        /\ UNCHANGED <<tocVars, content, created, now, running>>

\* rlm_clear_session
ClearSession(session_id) ==
    \E victim \in Victims(sessions) :
        /\ sessions' = clearSession(sessions, SessionIdOrDefault(session_id),
                                    now, victim)
        /\ calls' = Logged("clear_session", session_id, <<>>,
                           [success |-> TRUE,
                            session_id |-> SessionIdOrDefault(session_id)])
        /\ UNCHANGED <<tocVars, content, created, now, running>>

(***************************************************************************)
(* Script execution: SessionManager.executeCode and rlm_execute_code.      *)
(* A script is the sequence of the operations it still has to make:        *)
(* "print" writes to the captured output, "setVar" sets the variable       *)
(* 'note', "throw" raises an error, "loop" is a tight loop that never      *)
(* ends.  An execution in progress is an entry of running: its call, its   *)
(* session, the rest of its script, the output captured and the time it    *)
(* began.  Executions on the same session take the session's lock in       *)
(* arrival order: the first entry of a session in running holds the lock   *)
(* and runs, the later ones wait for it.                                   *)
(***************************************************************************)
Execution(session_id, id, code, t) ==
    [session_id |-> session_id, session |-> id, code |-> code, rest |-> code,
     output |-> <<>>, startedAt |-> t]

\* The k-th execution holds the lock of its session.
HoldsLock(k) == \A j \in 1..(k - 1) : running[j].session # running[k].session

\* running without its k-th entry; the execution that waited for it begins
\* at time t.
Released(k, t) ==
    LET next == {j \in (k + 1)..Len(running) :
                    running[j].session = running[k].session}
    IN  [j \in 1..(Len(running) - 1) |->
            IF j < k THEN running[j]
            ELSE IF next # {} /\ j + 1 = MinOf(next)
                 THEN [running[j + 1] EXCEPT !.startedAt = t]
                 ELSE running[j + 1]]

\* The result of executeCode
ExecutionResult(output, error, durationMs) ==
    [output |-> output, error |-> error, durationMs |-> durationMs]

ExecuteCodeOutputSucceeded(result) ==
    [success |-> TRUE, output |-> result.output,
     error |-> result.error, duration_ms |-> result.durationMs]

\* The output of rlm_execute_code for a result of executeCode
ExecuteCodeOutput(result) ==
    [success |-> (result.error = Undefined), output |-> result.output,
     error |-> result.error, duration_ms |-> result.durationMs]

\* The session with the record of an execution appended to its history.
Recorded(ss, id, code, result) ==
    IF id \in DOMAIN ss
    THEN [ss EXCEPT ![id].executionHistory =
                        Append(@, [code |-> code, output |-> result.output,
                                   error |-> result.error,
                                   durationMs |-> result.durationMs])]
    ELSE ss

\* rlm_execute_code up to its await: executeCode fails at once when there is
\* no such session, and otherwise queues for the session's lock.
ExecuteCode(session_id, code) ==
    \E victim \in Victims(sessions) :
        LET id    == SessionIdOrDefault(session_id)
            found == Resolve(sessions, id, now, victim)
        IN  /\ sessions' = found
            /\ IF id \in DOMAIN found
               THEN /\ running' = Append(running, Execution(session_id, id, code, now))
                    /\ calls' = calls
               ELSE /\ running' = running
                    /\ calls' = Logged("execute_code", session_id, [code |-> code],
                                       ExecuteCodeOutput(
                                           ExecutionResult(<<>>, Some("Session not found"), 0)))
            /\ UNCHANGED <<tocVars, content, created, now>>

\* The script of the k-th execution makes its next operation.
ScriptStep(k) ==
    /\ HoldsLock(k)
    /\ running[k].rest # <<>>
    /\ Head(running[k].rest) \in {"print", "setVar"}
    /\ running' = [running EXCEPT ![k].rest = Tail(@),
                                  ![k].output = IF Head(running[k].rest) = "print"
                                                THEN Append(@, "out") ELSE @]
    /\ sessions' = IF Head(running[k].rest) = "setVar"
                      /\ running[k].session \in DOMAIN sessions
                   THEN [sessions EXCEPT ![running[k].session].variables =
                                             Put(@, "note", NumberValue(1))]
                   ELSE sessions
    /\ UNCHANGED <<tocVars, content, calls, created, now>>

\* The k-th execution ends with the result given: the record is appended to the
\* history and rlm_execute_code returns.
Returns(k, result) ==
    /\ sessions' = Recorded(sessions, running[k].session, running[k].code, result)
    /\ running' = Released(k, now)
    /\ calls' = Logged("execute_code", running[k].session_id,
                       [code |-> running[k].code], ExecuteCodeOutput(result))
    /\ UNCHANGED <<tocVars, content, created, now>>

\* The script of the k-th execution has ended, or has thrown.
ExecuteCodeReturn(k) ==
    /\ HoldsLock(k)
    /\ \/ running[k].rest = <<>>
       \/ running[k].rest # <<>> /\ Head(running[k].rest) = "throw"
    /\ Returns(k, ExecutionResult(running[k].output,
                                  IF running[k].rest = <<>> THEN Undefined
                                  ELSE Some("Error: thrown"),
                                  now - running[k].startedAt))

\* The deadline of the k-th execution has passed: the script is terminated.
TimedOut(k) == now - running[k].startedAt >= CODE_EXECUTION_TIMEOUT_MS

ExecuteCodeTimeout(k) ==
    /\ HoldsLock(k)
    /\ TimedOut(k)
    /\ Returns(k, ExecutionResult(running[k].output,
                                  Some("Execution timed out"),
                                  now - running[k].startedAt))

\* Time passes by d milliseconds, up to the next deadline of a running script.
Tick(d) ==
    /\ \A k \in 1..Len(running) :
           HoldsLock(k) => now + d <= running[k].startedAt + CODE_EXECUTION_TIMEOUT_MS
    /\ now' = now + d
    /\ UNCHANGED <<tocVars, content, calls, sessions, created, running>>

(***************************************************************************)
(* The answer of a session: set_answer, get_answer and the tools that      *)
(* work on the same session in between.                                    *)
(***************************************************************************)
MaxAnswerCalls == 4

\* The sessions a caller can name that exist: the default one (by leaving
\* session_id out) and the ones created.
ExistingSessionIds ==
    {Undefined} \cup {Some(id) : id \in (DOMAIN sessions) \ {DefaultId}}

VariableNames == {"answer", "note"}
VariableValues == {AnswerValue("draft", TRUE), NumberValue(0)}
AnswerTexts == {"", "done"}

InitAnswer ==
    /\ content = <<>>
    /\ calls = <<>>
    /\ NewRegistry
    /\ NoDocumentation

\* The calls a caller makes: at most MaxAnswerCalls, on sessions that exist.
AnswerCallers == IF Len(calls) < MaxAnswerCalls THEN ExistingSessionIds ELSE {}

NextAnswer ==
    \/ Len(calls) < MaxAnswerCalls /\ created < 1 /\ CreateSession
    \/ \E sid \in AnswerCallers, name \in VariableNames,
          value \in VariableValues : SetVariable(sid, name, value)
    \/ \E sid \in AnswerCallers, text \in AnswerTexts, ready \in BOOLEAN :
          SetAnswer(sid, text, ready)
    \/ \E sid \in AnswerCallers : GetAnswer(sid)
    \/ \E sid \in AnswerCallers : ClearSession(sid)

SpecAnswer == InitAnswer /\ [][NextAnswer]_vars

\* The set_answer calls on the session of call i made before it.
SetAnswersBefore(i) ==
    {j \in 1..(i - 1) : /\ calls[j].tool = "set_answer"
                        /\ calls[j].session_id = calls[i].session_id}

\* C12: get_answer returns the content and ready of the most recent set_answer
\* call on the session, whatever other tools were called since, and ready is
\* true only if that call had ready = true (false when there was none).
C12_AnswerIsLastSetAnswer ==
    \A i \in 1..Len(calls) :
        calls[i].tool = "get_answer" =>
            IF SetAnswersBefore(i) = {}
            THEN calls[i].out.type = "answer" /\ ~calls[i].out.ready
            ELSE LET last == calls[MaxOf(SetAnswersBefore(i))].params
                 IN  calls[i].out = AnswerValue(last.content, last.ready)

(***************************************************************************)
(* Calls that name a session or a context that does not exist.             *)
(***************************************************************************)
MaxUnknownCalls == 3

\* The session ids a caller names: the first session created, before and
\* after its creation, and an id that is never given out.
NamedSessionIds == {Some(SessionId(1)), Some(SessionId(7))}

\* "main" is the context that gets loaded, "other" is never loaded.
ContextIds == {"main", "other"}

Scripts == {<<"setVar", "print">>, <<"throw">>, <<"print", "loop">>}

\* The callers of the tools: they stop after MaxUnknownCalls calls.
UnknownCallers ==
    IF Len(calls) + Len(running) < MaxUnknownCalls THEN NamedSessionIds ELSE {}

InitUnknown ==
    /\ content = <<>>
    /\ calls = <<>>
    /\ NewRegistry
    /\ NoDocumentation

NextUnknown ==
    \/ UnknownCallers # {} /\ created < 1 /\ CreateSession
    \/ \E sid \in UnknownCallers : LoadContext(sid, "main", <<"a">>)
    \/ \E sid \in UnknownCallers, c \in ContextIds : GetContextInfo(sid, c)
    \/ \E sid \in UnknownCallers : SetVariable(sid, "note", NumberValue(1))
    \/ \E sid \in UnknownCallers : GetVariable(sid, "note")
    \/ \E sid \in UnknownCallers : SetAnswer(sid, "done", TRUE)
    \/ \E sid \in UnknownCallers : GetAnswer(sid)
    \/ \E sid \in UnknownCallers : GetSessionInfo(sid)
    \/ \E sid \in UnknownCallers : ClearSession(sid)
    \/ \E sid \in UnknownCallers : ExecuteCode(sid, <<"setVar", "print">>)
    \/ \E k \in 1..Len(running) : ScriptStep(k)
    \/ \E k \in 1..Len(running) : ExecuteCodeReturn(k)

SpecUnknown == InitUnknown /\ [][NextUnknown]_vars

\* A result that reports a failure: an error text, or success = false.
ReportsFailure(out) ==
    \/ "text" \in DOMAIN out
    \/ "success" \in DOMAIN out /\ ~out.success

\* C13: a call that names a session id that is not in the registry returns a
\* failure and changes no session state, whatever the tool; a call that names
\* a context id that is not loaded returns the context-not-found failure.
C13_UnknownSessionFails ==
    \A i \in 1..Len(calls) :
        /\ ~calls[i].known => ReportsFailure(calls[i].out) /\ ~calls[i].changed
        /\ (calls[i].tool = "get_context_info" /\ calls[i].params.context_id = "other")
               => calls[i].out = ErrorText("Error: Context not found")

(***************************************************************************)
(* ContextProcessor: statistics and the strategy suggestion                *)
(***************************************************************************)
\* The offsets at which a match of /\n\n+/ starts: the first line end of
\* each maximal run of at least two line ends.
BlankLineRuns(s) ==
    {p \in 0..(Len(s) - 2) :
        /\ s[p + 1] = NL
        /\ s[p + 2] = NL
        /\ (p = 0 \/ s[p] # NL)}

\* The length of the match of /\n\n+/ that starts at offset p: the whole run
\* of line ends (the quantifier is greedy).
BlankLineRunLength(s, p) ==
    Cardinality({q \in p..(Len(s) - 1) : \A r \in p..q : s[r + 1] = NL})

\* content.split(/\n\n+/): the pieces between the matches, from offset pos on.
RECURSIVE splitBlankLinesFrom(_, _, _)
splitBlankLinesFrom(s, runs, pos) ==
    IF runs = {} THEN <<slice(s, pos, Len(s))>>
    ELSE <<slice(s, pos, MinOf(runs))>>
         \o splitBlankLinesFrom(s, runs \ {MinOf(runs)},
                                MinOf(runs) + BlankLineRunLength(s, MinOf(runs)))

splitBlankLines(s) == splitBlankLinesFrom(s, BlankLineRuns(s), 0)

\* p.trim().length > 0: some character of p is not white space.
NonBlank(p) == \E i \in 1..Len(p) : ~IsSpace(p[i])

\* .filter(p => p.trim().length > 0).length
NonBlankCount(parts) == Cardinality({k \in 1..Len(parts) : NonBlank(parts[k])})

\* getStatistics: the two statistics suggestStrategy reads.
getStatistics(s) ==
    [length |-> Len(s), paragraphCount |-> NonBlankCount(splitBlankLines(s))]

StructureTypes == {"JSON", "CSV", "MARKDOWN", "CODE", "LOG", "PLAIN_TEXT"}

Suggestion(strategy, reason, options) ==
    [strategy |-> strategy, reason |-> reason, options |-> options]

NoOptions == [none |-> TRUE]

ManyParagraphsFromTen(paragraphCount) == paragraphCount >= 10

\* stats.paragraphCount > 10
ManyParagraphs(paragraphCount) == paragraphCount > 10

\* The plain-text part of suggestStrategy, on the statistics of the text.
suggestPlain(stats) ==
    IF ManyParagraphs(stats.paragraphCount)
    THEN Suggestion("by_paragraphs", "Document has clear paragraph structure",
                    NoOptions)
    ELSE IF stats.length > 50000
    THEN Suggestion("fixed_size", "Large document requires fixed-size chunking",
                    [chunkSize |-> 10000, overlap |-> 200])
    ELSE Suggestion("by_sentences",
                    "Default to sentence-based chunking for general text",
                    NoOptions)

suggestStrategy(s, structure) ==
    CASE structure = "JSON" ->
            Suggestion("fixed_size",
                "JSON data works best with fixed-size chunks to avoid breaking structure",
                [chunkSize |-> 20000, overlap |-> 500])
      [] structure = "CSV" ->
            Suggestion("by_lines",
                "CSV data should be chunked by rows to preserve record integrity",
                [linesPerChunk |-> 200, overlap |-> 0])
      [] structure = "MARKDOWN" ->
            Suggestion("by_sections",
                "Markdown content has natural section boundaries", NoOptions)
      [] structure = "CODE" ->
            Suggestion("by_lines",
                "Code should be chunked by lines to preserve context",
                [linesPerChunk |-> 100, overlap |-> 20])
      [] structure = "LOG" ->
            Suggestion("by_lines", "Log files are naturally line-based",
                [linesPerChunk |-> 500, overlap |-> 50])
      [] OTHER -> suggestPlain(getStatistics(s))

(***************************************************************************)
(* The strategy suggestion called directly on a text and a structure tag.  *)
(***************************************************************************)
MaxStrategyCalls == 2   \* suggestions asked for one text

\* k paragraphs "a" with sep between each two of them.
JoinedParagraphs(k, sep) ==
    [i \in 1..(k + (k - 1) * Len(sep)) |->
        IF (i - 1) % (1 + Len(sep)) = 0 THEN "a"
        ELSE sep[(i - 1) % (1 + Len(sep))]]

ParagraphSeparators ==
    {<<NL, NL>>, <<NL, NL, NL>>, <<NL>>, <<NL, " ", NL>>, <<NL, NL, " ", NL, NL>>}

\* Texts on both sides of the two thresholds, alone and together.
StrategyTexts ==
    {JoinedParagraphs(k, sep) : k \in {1, 6, 10, 11}, sep \in ParagraphSeparators}
    \cup {Repeat("a", 50000), Repeat("a", 50001),
          JoinedParagraphs(11, <<NL, NL>>) \o Repeat("a", 50000)}

InitStrategy ==
    /\ content \in StrategyTexts
    /\ calls = <<>>
    /\ NewRegistry
    /\ NoDocumentation

SuggestStrategy(structure) ==
    /\ Len(calls) < MaxStrategyCalls
    /\ calls' = Append(calls, [tool |-> "suggest_strategy",
                               params |-> [structure |-> structure],
                               out |-> suggestStrategy(content, structure)])
    /\ UNCHANGED <<tocVars, content, sessionVars>>

NextStrategy == \E structure \in StructureTypes : SuggestStrategy(structure)

SpecStrategy == InitStrategy /\ [][NextStrategy]_vars

\* The decision table of the claim, on a structure tag and the statistics.
TableStrategy(structure, length, paragraphCount) ==
    CASE structure = "JSON"     -> "fixed_size"
      [] structure = "CSV"      -> "by_lines"
      [] structure = "MARKDOWN" -> "by_sections"
      [] structure = "CODE"     -> "by_lines"
      [] structure = "LOG"      -> "by_lines"
      [] OTHER -> IF paragraphCount > 10 THEN "by_paragraphs"
                  ELSE IF length > 50000 THEN "fixed_size"
                  ELSE "by_sentences"

FollowsTable(call, stats) ==
    call.out.strategy = TableStrategy(call.params.structure, stats.length,
                                      stats.paragraphCount)

\* C14: the suggestion follows the decision table in priority order (the
\* structure tag first, then more than 10 paragraphs, then more than 50000
\* characters, else by-sentences), and two calls with the same text and
\* structure give the same result.
C14_SuggestStrategyTable ==
    /\ calls # <<>> => FollowsTable(calls[Len(calls)], getStatistics(content))
    /\ \A i, j \in 1..Len(calls) :
           calls[i].params = calls[j].params => calls[i].out = calls[j].out

\* C14 witness: a text over both thresholds was given the by-paragraphs
\* suggestion as plain text and the by-lines suggestion as a log, and the
\* same plain-text call was made twice.
C14_Witness ==
    /\ Len(content) > 50000
    /\ Len(calls) = 2
    /\ calls[1].params.structure = "PLAIN_TEXT"
    /\ calls[2].params.structure = "PLAIN_TEXT"
    /\ calls[1].out.strategy = "by_paragraphs"

(***************************************************************************)
(* Script execution under the wall clock: execute_code calls on the        *)
(* default session and on a created one, scripts that end, throw or loop,  *)
(* and the clock.                                                          *)
(***************************************************************************)
MaxExecuteCalls == 2    \* execute_code calls made

ExecuteCodeCalls == {i \in 1..Len(calls) : calls[i].tool = "execute_code"}

\* The execute_code calls made, and those that have returned.
Started  == Len(running) + Cardinality(ExecuteCodeCalls)
Returned == Cardinality(ExecuteCodeCalls)

ExecuteCallers ==
    IF Started < MaxExecuteCalls THEN {Undefined, Some(SessionId(1))} ELSE {}

\* The clock is looked at twice in a timeout period.
TickSteps == {CODE_EXECUTION_TIMEOUT_MS \div 2}

InitExecute ==
    /\ content = <<>>
    /\ calls = <<>>
    /\ NewRegistry
    /\ NoDocumentation

NextExecute ==
    \/ created < 1 /\ Started < MaxExecuteCalls /\ CreateSession
    \/ \E sid \in ExecuteCallers, code \in Scripts : ExecuteCode(sid, code)
    \/ \E k \in 1..Len(running) : ScriptStep(k)
    \/ \E k \in 1..Len(running) : ExecuteCodeReturn(k)
    \/ \E k \in 1..Len(running) : ExecuteCodeTimeout(k)
    \/ \E d \in TickSteps : running # <<>> /\ Tick(d)

SpecExecute == InitExecute /\ [][NextExecute]_vars

\* The clock advances, a script that can make a step makes it, and an
\* execution that has ended or has reached its deadline returns.
FairExecute ==
    /\ WF_vars(\E d \in TickSteps : running # <<>> /\ Tick(d))
    /\ \A k \in 1..MaxExecuteCalls :
           /\ WF_vars(k <= Len(running) /\ ScriptStep(k))
           /\ WF_vars(k <= Len(running) /\ ExecuteCodeReturn(k))
           /\ WF_vars(k <= Len(running) /\ ExecuteCodeTimeout(k))

SpecExecuteFair == SpecExecute /\ FairExecute

\* The script never ends by itself.
Loops(code) == \E i \in 1..Len(code) : code[i] = "loop"

\* What the script has printed when it reaches its loop.
RECURSIVE OutputBeforeLoop(_)
OutputBeforeLoop(code) ==
    IF code = <<>> \/ Head(code) = "loop" THEN <<>>
    ELSE (IF Head(code) = "print" THEN <<"out">> ELSE <<>>)
         \o OutputBeforeLoop(Tail(code))

\* The result of a call whose script was terminated at the deadline.
TimeoutReported(call) ==
    /\ ~call.out.success
    /\ call.out.error = Some("Execution timed out")
    /\ call.out.output
           = SubSeq(OutputBeforeLoop(call.params.code), 1, Len(call.out.output))
    /\ call.out.duration_ms = CODE_EXECUTION_TIMEOUT_MS

MaxOverflow == 2      \* sessions created beyond the capacity

NearlyFull == created + 1 >= MAX_SESSIONS

CapacityCreateAllowed ==
    /\ created < MAX_SESSIONS + MaxOverflow
    /\ \/ created < MaxOverflow
       \/ now = created - 1
       \/ NearlyFull

CapacityTickAllowed ==
    \/ now < created - 1
    \/ NearlyFull /\ now < created + 1

\* The caller of get_session_info: it names one of the first two sessions,
\* once.
TouchCallers ==
    IF NearlyFull /\ Len(calls) = created
    THEN {Some(SessionId(1)), Some(SessionId(2))} ELSE {}

InitCapacity ==
    /\ content = <<>>
    /\ calls = <<>>
    /\ NewRegistry
    /\ NoDocumentation

NextCapacity ==
    \/ CapacityCreateAllowed /\ CreateSession
    \/ CapacityTickAllowed /\ Tick(1)
    \/ \E sid \in TouchCallers : GetSessionInfo(sid)

SpecCapacity == InitCapacity /\ [][NextCapacity]_vars

\* A create_session step admits the session it reports.
CreateAdmits ==
    /\ SessionId(created') \in DOMAIN sessions'
    /\ calls'[Len(calls')].tool = "create_session"
    /\ calls'[Len(calls')].out.session_id = SessionId(created')

\* A create_session step on a full registry evicts exactly one session, and
\* no session was active less recently than that one.
CreateEvictsOldest ==
    Cardinality(DOMAIN sessions) >= MAX_SESSIONS =>
        \E v \in DOMAIN sessions :
            /\ DOMAIN sessions' = (DOMAIN sessions \ {v}) \cup {SessionId(created')}
            /\ \A o \in DOMAIN sessions :
                   sessions[v].lastActivityAt <= sessions[o].lastActivityAt

\* C16: the registry never holds more than MAX_SESSIONS sessions, every
\* create_session call admits a new session, and on a full registry it
\* evicts a session with the oldest lastActivityAt.
C16_CapacityEvictsOldest ==
    /\ [](Cardinality(DOMAIN sessions) <= MAX_SESSIONS)
    /\ [][created' = created + 1 => CreateAdmits /\ CreateEvictsOldest]_vars

\* C16 witness: more than MAX_SESSIONS sessions were created, the registry is
\* full, the first session was touched and is still there, and the second,
\* then the least recently active, is gone.
C16_Witness ==
    /\ created > MAX_SESSIONS
    /\ Cardinality(DOMAIN sessions) = MAX_SESSIONS
    /\ SessionId(1) \in DOMAIN sessions
    /\ SessionId(2) \notin DOMAIN sessions
    /\ SessionId(created) \in DOMAIN sessions

(***************************************************************************)
(* The inactivity sweep: sessions created, loaded, written and looked at,  *)
(* the clock, and the sweep of the registry.                               *)
(***************************************************************************)
MaxSweepCalls == 4    \* tool calls and sweeps

\* The session has been inactive for longer than the timeout at time t.
Expired(session, t) == t - session.lastActivityAt > SESSION_TIMEOUT_MS

\* The registry after the inactivity sweep at time t.
sweep(ss, t) == [id \in {i \in DOMAIN ss : ~Expired(ss[i], t)} |-> ss[id]]

\* The periodic sweep runs.
Sweep ==
    /\ Len(calls) < MaxSweepCalls
    /\ sessions' = sweep(sessions, now)
    /\ calls' = Append(calls, [tool |-> "sweep", at |-> now,
                               before |-> sessions, after |-> sessions'])
    /\ UNCHANGED <<tocVars, content, created, now, running>>

SweepCallers ==
    IF Len(calls) < MaxSweepCalls THEN {Undefined, Some(SessionId(1))} ELSE {}

\* The clock is looked at after one millisecond, after one timeout period and
\* one millisecond after that.
SweepTimes == {1, SESSION_TIMEOUT_MS, SESSION_TIMEOUT_MS + 1}
SweepTickSteps == {d \in {1, SESSION_TIMEOUT_MS} : now + d \in SweepTimes}

InitSweep ==
    /\ content = <<>>
    /\ calls = <<>>
    /\ NewRegistry
    /\ NoDocumentation

NextSweep ==
    \/ SweepCallers # {} /\ created < 1 /\ CreateSession
    \/ \E sid \in SweepCallers : LoadContext(sid, "main", <<"a">>)
    \/ \E sid \in SweepCallers : SetVariable(sid, "note", NumberValue(1))
    \/ \E sid \in SweepCallers : GetSessionInfo(sid)
    \/ \E d \in SweepTickSteps : Tick(d)
    \/ Sweep

SpecSweep == InitSweep /\ [][NextSweep]_vars

SweepEntries == {i \in 1..Len(calls) : calls[i].tool = "sweep"}

\* The get_session_info calls made after the i-th entry of the log.
InfoCallsAfter(i) ==
    {j \in (i + 1)..Len(calls) : calls[j].tool = "get_session_info"}

\* What get_session_info lists for a session.
ListedContexts(session) ==
    {[id |-> c, length |-> session.contexts[c].metadata.length] :
        c \in DOMAIN session.contexts}

\* The sweep entry e kept the sessions that were active within the timeout,
\* as they were, and the get_session_info call right after it, when it is
\* about such a session, lists its contexts and variables.
KeptUnchanged(e, next) ==
    /\ \A id \in DOMAIN e.before :
           ~Expired(e.before[id], e.at)
               => id \in DOMAIN e.after /\ e.after[id] = e.before[id]
    /\ \A id \in DOMAIN e.before :
           (/\ ~Expired(e.before[id], e.at)
            /\ next.tool = "get_session_info"
            /\ SessionIdOrDefault(next.session_id) = id)
               => /\ next.out.contexts = ListedContexts(e.before[id])
                  /\ next.out.variables = DOMAIN e.before[id].variables

NoCall == [tool |-> "none"]
CallAfter(i) == IF i < Len(calls) THEN calls[i + 1] ELSE NoCall

FreshDefault(call) ==
    /\ call.out.session_id = DefaultId
    /\ call.out.created_at = call.out.last_activity
    /\ call.out.contexts = {}
    /\ call.out.variables = {}

AnswersCall == Len(calls') = Len(calls) + 1 /\ Len(running') = Len(running)

\* The session the call just answered worked on.
AnsweredSession == SessionIdOrDefault(calls'[Len(calls')].session_id)

\* C18: while an execute_code call on a session is in progress, no other tool
\* call on that session is answered: none reads or changes the session's
\* state in between.
C18_SessionSerialized ==
    [][\A k \in 1..Len(running) :
           (HoldsLock(k) /\ AnswersCall /\ calls'[Len(calls')].tool # "create_session")
               => AnsweredSession # running[k].session]_vars

(***************************************************************************)
(* By-sections decomposition of texts without a header.                    *)
(***************************************************************************)
\* A Markdown header line: 1 to 6 '#' at the start of the line, followed by a
\* blank or by the end of the line.
HeaderLine(line) ==
    /\ RunIn(line, 0, {"#"}) \in 1..6
    /\ \/ Len(line) = RunIn(line, 0, {"#"})
       \/ line[RunIn(line, 0, {"#"}) + 1] = " "

NoHeaderLine(lines) == \A k \in 1..Len(lines) : ~HeaderLine(lines[k])

\* C19: by-sections decomposition of a text with no Markdown header line, the
\* empty text included, gives exactly one chunk: the whole text, from offset 0
\* to the length of the text, without metadata.
C19_NoHeaderSingleChunk ==
    \A i \in DecomposeCalls :
        (calls[i].strategy = "by_sections" /\ NoHeaderLine(split(content, NL)))
            => calls[i].chunks = <<Chunk(0, content, 0, Len(content), NoMetadata)>>

\* C19 witness: a text with a '#' that starts no header line, and with white
\* space at both ends, was decomposed by sections into one chunk.
C19_Witness ==
    \E i \in DecomposeCalls :
        /\ calls[i].strategy = "by_sections"
        /\ NoHeaderLine(split(content, NL))
        /\ content = <<" ", "#", " ", "a">>
        /\ Len(calls[i].chunks) = 1

(***************************************************************************)
(* Fixed-size decomposition: the step and the characters covered.          *)
(***************************************************************************)
\* The chunkSize and overlap decompose hands to decomposeBySize.
GivenChunkSize(options) == OrNumber(options.chunkSize, DEFAULT_CHUNK_SIZE)
GivenOverlap(options) == OverlapOrDefault(options.overlap, DEFAULT_OVERLAP)

\* Offset p of the text is in the range of one of the chunks.
Covered(chunks, p) ==
    \E k \in 1..Len(chunks) : chunks[k].startOffset <= p /\ p < chunks[k].endOffset

StepsAndCovers(chunks, step, length) ==
    IF step <= 0
    THEN Len(chunks) = (IF length = 0 THEN 0 ELSE 1)
    ELSE /\ \A k \in 1..(Len(chunks) - 1) :
                chunks[k + 1].startOffset = chunks[k].startOffset + step
         /\ \A p \in 0..(length - 1) : Covered(chunks, p)

\* C20: fixed-size decomposition returns for every chunkSize and overlap; with
\* chunkSize - overlap <= 0 it gives one chunk for a non-empty text and none
\* for the empty text, and with chunkSize - overlap > 0 consecutive chunks
\* start chunkSize - overlap apart and every character of the text is in the
\* range of a chunk.
C20_FixedSizeStepsAndCovers ==
    \A i \in DecomposeCalls :
        calls[i].strategy = "fixed_size"
            => StepsAndCovers(calls[i].chunks,
                              GivenChunkSize(calls[i].options)
                                  - GivenOverlap(calls[i].options),
                              Len(content))

(***************************************************************************)
(* search: the number of matches and their context.                        *)
(***************************************************************************)
\* The text around a match the claim describes: from max(0, index -
\* contextChars) to min(length, index + match length + contextChars).
ContextAround(text, match, contextChars) ==
    SubSeq(text, Max(0, match.index - contextChars) + 1,
           Min(Len(text), match.index + Len(match.match) + contextChars))

BoundedWithContext(text, p, matches) ==
    /\ Len(matches) <= p.max_results
    /\ \A k \in 1..Len(matches) :
           matches[k].context = ContextAround(text, matches[k], p.context_chars)

\* C21: search returns for every text, every pattern that compiles and every
\* flags value, also when the pattern matches the empty string; it returns at
\* most maxResults matches (the loop runs once per match returned), and the
\* context of a match is the text from max(0, index - contextChars) to
\* min(length, index + match length + contextChars).
C21_SearchBoundedWithContext ==
    \A i \in SearchCalls :
        (ValidPattern(calls[i].params.pattern) /\ ValidFlags(calls[i].params.flags))
            => BoundedWithContext(content, calls[i].params, calls[i].out.matches)

\* C21 witness: a global search for a pattern that matches the empty string
\* was stopped by max_results after an empty match and a match of one
\* character whose context is cut at the start of the text.
C21_Witness ==
    \E i \in SearchCalls :
        /\ calls[i].params.pattern = "a*"
        /\ calls[i].params.flags = "g"
        /\ calls[i].params.context_chars = 1
        /\ Len(calls[i].out.matches) = calls[i].params.max_results
        /\ \E k \in 1..Len(calls[i].out.matches) :
               calls[i].out.matches[k].match = <<>>
        /\ \E k \in 1..Len(calls[i].out.matches) :
               /\ calls[i].out.matches[k].match = <<"a">>
               /\ calls[i].out.matches[k].index = 0
               /\ Len(calls[i].out.matches[k].context) = 2

(***************************************************************************)
(* Chunks as slices of the text.                                           *)
(***************************************************************************)
\* The chunk holds the text from its startOffset up to its endOffset.
IsSliceOf(text, chunk) ==
    /\ 0 <= chunk.startOffset
    /\ chunk.startOffset <= chunk.endOffset
    /\ chunk.endOffset <= Len(text)
    /\ chunk.content = SubSeq(text, chunk.startOffset + 1, chunk.endOffset)

\* C22: for every strategy, the content of every chunk returned is the text
\* from startOffset up to endOffset, and so has the length
\* endOffset - startOffset.
C22_ChunkIsSlice ==
    \A i \in DecomposeCalls :
        \A k \in 1..Len(calls[i].chunks) :
            /\ IsSliceOf(content, calls[i].chunks[k])
            /\ Len(calls[i].chunks[k].content)
                   = calls[i].chunks[k].endOffset - calls[i].chunks[k].startOffset

(***************************************************************************)
(* A suggestion handed on: suggestStrategy on a text of rows, and then     *)
(* decompose with the strategy and the options of the suggestion.          *)
(***************************************************************************)
\* n rows "a" joined by line breaks.
Rows(n) == [i \in 1..(2 * n - 1) |-> IF i % 2 = 1 THEN "a" ELSE NL]

\* Row counts on both sides of one chunk of the by-lines suggestions.
RowCounts == {1, 2, 90, 100, 101, 190, 191, 200, 201, 250}

RowTexts == {Rows(n) : n \in RowCounts} \cup {Rows(n) \o <<NL>> : n \in RowCounts}

\* The options object of a by-lines suggestion as the options of decompose.
LineOptions(options) ==
    Options(Undefined, Some(options.overlap), Some(options.linesPerChunk), Undefined)

InitRows ==
    /\ content \in RowTexts
    /\ calls = <<>>
    /\ NewRegistry
    /\ NoDocumentation

SuggestRows(structure) ==
    /\ calls = <<>>
    /\ calls' = <<[tool |-> "suggest_strategy",
                   params |-> [structure |-> structure],
                   out |-> suggestStrategy(content, structure)]>>
    /\ UNCHANGED <<tocVars, content, sessionVars>>

\* decompose(content, suggestion.strategy, suggestion.options)
DecomposeSuggested ==
    /\ Len(calls) = 1
    /\ calls[1].out.strategy = "by_lines"
    /\ calls' = Append(calls,
                   [tool |-> "decompose", strategy |-> calls[1].out.strategy,
                    options |-> LineOptions(calls[1].out.options),
                    chunks |-> decompose(content, calls[1].out.strategy,
                                         LineOptions(calls[1].out.options))])
    /\ UNCHANGED <<tocVars, content, sessionVars>>

NextRows ==
    \/ \E structure \in StructureTypes : SuggestRows(structure)
    \/ DecomposeSuggested

SpecRows == InitRows /\ [][NextRows]_vars

\* No line lies in two chunks: each chunk starts after the one before ends.
LinesDisjoint(chunks) ==
    \A k \in 1..(Len(chunks) - 1) :
        chunks[k].metadata.endLine < chunks[k + 1].metadata.startLine

\* C23: decompose with the options suggestStrategy gives for CSV
\* ({linesPerChunk: 200, overlap: 0}) yields chunks in which no line appears
\* in more than one chunk.
C23_CsvSuggestionDisjoint ==
    (/\ Len(calls) = 2
     /\ calls[1].params.structure = "CSV")
        => LinesDisjoint(calls[2].chunks)

(***************************************************************************)
(* Reading a loaded context by a range of characters or of lines.          *)
(***************************************************************************)
MaxReadLen == 3   \* characters of a context that is read

\* extractLines(content, startLine, endLine)
extractLines(text, startLine, endLine) ==
    LET lines == split(text, NL)
        end   == IF endLine # Undefined THEN endLine[1] + 1 ELSE startLine + 1
    IN  join(slice(lines, startLine, end), NL)

\* extractRange(content, start, end)
extractRange(text, start, end) == slice(text, start, end)

\* params.end || context.content.length
ReadEnd(end, length) == OrNumber(end, length)

\* rlm_read_context
ReadContextOutput(found, id, p) ==
    IF id \in DOMAIN found /\ p.context_id \in DOMAIN found[id].contexts
    THEN LET text == found[id].contexts[p.context_id].content
             read == IF p.mode = "lines"
                     THEN extractLines(text, p.start, p.end)
                     ELSE extractRange(text, p.start, ReadEnd(p.end, Len(text)))
         IN  [content |-> read, start |-> p.start, end |-> p.end,
              mode |-> p.mode, length |-> Len(read)]
    ELSE ErrorText("Error: Context not found")

ReadContext(session_id, p) ==
    \E victim \in Victims(sessions) :
        /\ sessions' = SessionOrDefault(sessions, session_id, now, victim)
        /\ calls' = Logged("read_context", session_id, p,
                           ReadContextOutput(sessions',
                                             SessionIdOrDefault(session_id), p))
        /\ UNCHANGED <<tocVars, content, created, now, running>>

ReadTexts == Strings({"a", "b", NL}, MaxReadLen)

ReadParams ==
    [context_id : ContextIds, start : 0..MaxReadLen,
     end : {Undefined} \cup {Some(e) : e \in 0..(MaxReadLen + 1)},
     mode : {"chars", "lines"}]

InitRead ==
    /\ content \in ReadTexts
    /\ calls = <<>>
    /\ NewRegistry
    /\ NoDocumentation

NextRead ==
    \/ calls = <<>> /\ LoadContext(Undefined, "main", content)
    \/ \E p \in ReadParams : Len(calls) = 1 /\ ReadContext(Undefined, p)

SpecRead == InitRead /\ [][NextRead]_vars

ReadCalls ==
    {i \in 1..Len(calls) : calls[i].tool = "read_context"
                           /\ "content" \in DOMAIN calls[i].out}

\* The items start..end-1 of a sequence, counted from 0.
ItemsBefore(items, start, end) == SubSeq(items, start + 1, end)

\* What a read with an exclusive end returns: the characters, or the lines
\* joined by line breaks, from start up to but without end; to the last one
\* when end is omitted.
ExclusiveRead(text, p) ==
    LET lines == split(text, NL)
    IN  IF p.mode = "lines"
        THEN join(ItemsBefore(lines, p.start,
                              IF p.end = Undefined THEN Len(lines) ELSE p.end[1]),
                  NL)
        ELSE ItemsBefore(text, p.start,
                         IF p.end = Undefined THEN Len(text) ELSE p.end[1])

\* start <= end <= the number of characters or lines, for the end given or
\* taken
InRange(text, p) ==
    LET count == IF p.mode = "lines" THEN Len(split(text, NL)) ELSE Len(text)
    IN  /\ p.start <= count
        /\ p.end # Undefined => (p.start <= p.end[1] /\ p.end[1] <= count)

\* C24: read_context treats end as exclusive in both modes: with
\* 0 <= start <= end <= length it returns the characters (lines) start..end-1,
\* the empty string when end = start (also when end = 0), and reads to the
\* end of the context when end is omitted; the reported length is the length
\* of the returned content.
C24_ReadEndExclusive ==
    \A i \in ReadCalls :
        /\ calls[i].out.length = Len(calls[i].out.content)
        /\ InRange(content, calls[i].params)
               => calls[i].out.content = ExclusiveRead(content, calls[i].params)

(***************************************************************************)
(* The default session: every tool called without a session_id.            *)
(***************************************************************************)
MaxDefaultCalls == 3   \* calls made without a session_id

\* The callers that name no session: they stop after MaxDefaultCalls calls.
DefaultCallers ==
    IF Len(calls) + Len(running) < MaxDefaultCalls THEN {Undefined} ELSE {}

InitDefault ==
    /\ content = <<>>
    /\ calls = <<>>
    /\ NewRegistry
    /\ NoDocumentation

NextDefault ==
    \/ \E sid \in DefaultCallers : LoadContext(sid, "main", <<"a">>)
    \/ \E sid \in DefaultCallers : GetSessionInfo(sid)
    \/ \E sid \in DefaultCallers, name \in VariableNames :
          SetVariable(sid, name, NumberValue(1))
    \/ \E sid \in DefaultCallers : GetVariable(sid, "note")
    \/ \E sid \in DefaultCallers : SetAnswer(sid, "done", TRUE)
    \/ \E sid \in DefaultCallers : GetAnswer(sid)
    \/ \E sid \in DefaultCallers : ClearSession(sid)
    \/ \E sid \in DefaultCallers : ExecuteCode(sid, <<"setVar", "print">>)
    \/ \E k \in 1..Len(running) : ScriptStep(k)
    \/ \E k \in 1..Len(running) : ExecuteCodeReturn(k)

SpecDefault == InitDefault /\ [][NextDefault]_vars

\* The calls of a tool made after the last clear_session before the i-th call.
SinceClear(i, tool) ==
    {j \in 1..(i - 1) :
        /\ calls[j].tool = tool
        /\ \A k \in j..(i - 1) : calls[k].tool # "clear_session"}

\* The i-th call, a get_session_info, reports the default session with what
\* the calls before it have stored there.
ListsStored(i) ==
    /\ "variables" \in DOMAIN calls[i].out
    /\ calls[i].out.session_id = DefaultId
    /\ \A j \in SinceClear(i, "set_variable") :
           calls[j].params.name \in calls[i].out.variables
    /\ SinceClear(i, "set_answer") # {} => "answer" \in calls[i].out.variables
    /\ SinceClear(i, "load_context") # {}
           => \E c \in calls[i].out.contexts : c.id = "main"
    /\ calls[i].out.execution_count = Cardinality(SinceClear(i, "execute_code"))

EndsInNewline(text) == text # <<>> /\ text[Len(text)] = NL

InitNewline ==
    /\ content \in {t \in Texts : ~EndsInNewline(t)}
    /\ calls = <<>>
    /\ NewRegistry
    /\ NoDocumentation

\* contextProcessor.decompose(content + '\n', strategy, options), with the
\* strategy and the options of the call before
DecomposeWithNewline ==
    /\ Len(calls) = 1
    /\ calls' = Append(calls,
                   [tool |-> "decompose", strategy |-> calls[1].strategy,
                    options |-> calls[1].options,
                    chunks |-> decompose(content \o <<NL>>, calls[1].strategy,
                                         calls[1].options)])
    /\ UNCHANGED <<tocVars, content, sessionVars>>

NextNewline ==
    \/ \E in \in DecomposeInputs : Decompose(in)
    \/ DecomposeWithNewline

SpecNewline == InitNewline /\ [][NextNewline]_vars

Contents(chunks) == [k \in 1..Len(chunks) |-> chunks[k].content]

\* C26: for every strategy and the same options, a text that does not end
\* in a line break and the text followed by one line break give the same
\* number of chunks with the same contents.
C26_TrailingNewlineSame ==
    Len(calls) = 2 => Contents(calls[1].chunks) = Contents(calls[2].chunks)

\* The character at offset p lies in the range of one of the chunks.
InSomeChunk(chunks, p) ==
    \E k \in 1..Len(chunks) :
        chunks[k].startOffset <= p /\ p < chunks[k].endOffset

\* C27: by-sentences decomposition loses no text: every character of the
\* text that is not white space lies in [startOffset, endOffset) of a chunk,
\* a trailing fragment without '.', '!' or '?' after a complete sentence
\* included.
C27_SentencesLoseNoText ==
    \A i \in DecomposeCalls :
        calls[i].strategy = "by_sentences"
            => \A p \in 0..(Len(content) - 1) :
                   ~IsSpace(content[p + 1]) => InSomeChunk(calls[i].chunks, p)

(***************************************************************************)
(* findAll called directly, one turn of its while loop at a time.  The     *)
(* call in progress is the entry of running: the lowered text and term,    *)
(* the index the next indexOf starts from and the offsets pushed so far,   *)
(* of which the first MaxPushes are kept.                                  *)
(***************************************************************************)
MaxPushes == 6   \* offsets kept of a findAll call in progress

FindAllTerms == Substrings \cup {<<>>}

InitFindAll ==
    /\ content \in SearchTexts
    /\ calls = <<>>
    /\ NewRegistry
    /\ NoDocumentation

\* findAll(content, substring, caseSensitive) up to its loop
FindAllBegin(substring, caseSensitive) ==
    /\ calls = <<>>
    /\ running = <<>>
    /\ running' = <<[substring |-> substring, case_sensitive |-> caseSensitive,
                     searchContent |-> IF caseSensitive THEN content
                                       ELSE toLowerCase(content),
                     searchTerm |-> IF caseSensitive THEN substring
                                    ELSE toLowerCase(substring),
                     index |-> 0, indices |-> <<>>]>>
    /\ UNCHANGED <<tocVars, content, calls, sessions, created, now>>

\* The occurrence the loop condition of the call in progress finds
FindAllNext ==
    indexOf(running[1].searchContent, running[1].searchTerm, running[1].index)

\* One turn of the while loop: the offset is pushed and the index moved on.
FindAllTurn ==
    /\ running # <<>>
    /\ FindAllNext # -1
    /\ running' = <<[running[1] EXCEPT
                        !.indices = IF Len(@) < MaxPushes
                                    THEN Append(@, FindAllNext) ELSE @,
                        !.index = FindAllResume(FindAllNext,
                                                running[1].searchTerm)]>>
    /\ UNCHANGED <<tocVars, content, calls, sessions, created, now>>

\* indexOf found nothing: the loop ends and findAll returns the offsets.
FindAllReturn ==
    /\ running # <<>>
    /\ FindAllNext = -1
    /\ calls' = Append(calls,
                   [tool |-> "find_all", substring |-> running[1].substring,
                    case_sensitive |-> running[1].case_sensitive,
                    out |-> [count |-> Len(running[1].indices),
                             offsets |-> running[1].indices]])
    /\ running' = <<>>
    /\ UNCHANGED <<tocVars, content, sessions, created, now>>

NextFindAll ==
    \/ \E sub \in FindAllTerms, cs \in BOOLEAN : FindAllBegin(sub, cs)
    \/ FindAllTurn
    \/ FindAllReturn

SpecFindAll == InitFindAll /\ [][NextFindAll]_vars

\* A call in progress goes on with its loop.
FairFindAll == WF_vars(FindAllTurn) /\ WF_vars(FindAllReturn)

SpecFindAllFair == SpecFindAll /\ FairFindAll

\* Every offset returned leaves room for the substring in the text.
OffsetsInText ==
    \A c \in FindAllCalls :
        \A k \in 1..Len(calls[c].out.offsets) :
            /\ 0 <= calls[c].out.offsets[k]
            /\ calls[c].out.offsets[k] <= Len(content) - Len(calls[c].substring)

\* C28: findAll terminates for every text, substring and caseSensitive, the
\* empty substring included, and every offset o it returns satisfies
\* 0 <= o <= text length - substring length.
C28_FindAllTerminatesInRange ==
    /\ (running # <<>>) ~> (running = <<>>)
    /\ []OffsetsInText

\* C29: search reports no match twice: for every flags value the tool
\* accepts, with or without the global flag, the matches returned have
\* pairwise distinct index values.
C29_NoMatchTwice ==
    \A i \in SearchCalls :
        \A k, l \in 1..Len(calls[i].out.matches) :
            k # l => calls[i].out.matches[k].index # calls[i].out.matches[l].index

(***************************************************************************)
(* The documentation TOC generator (class TOCGenerator).  A name is the    *)
(* sequence of its characters.  A directory is the sequence of its entries *)
(* in the order readdirSync lists them; an entry is a file with its size   *)
(* in bytes, or a directory with its own entries, and is readable or not.  *)
(* Of a collected file the path and the size are kept; the output file is  *)
(* written outside the documentation directory.                            *)
(***************************************************************************)
MaxGenerateCalls == 2   \* generate() calls on one generator object

\* DEFAULT_CONFIG.includeExtensions
includeExtensions ==
    {<<".", "m", "d">>, <<".", "m", "d", "x">>, <<".", "t", "x", "t">>,
     <<".", "r", "s", "t">>, <<".", "a", "d", "o", "c">>,
     <<".", "h", "t", "m", "l">>}

\* DEFAULT_CONFIG.excludePatterns
excludePatterns ==
    {<<"n", "o", "d", "e", "_", "m", "o", "d", "u", "l", "e", "s">>,
     <<".", "g", "i", "t">>, <<"d", "i", "s", "t">>,
     <<"b", "u", "i", "l", "d">>}

\* String.prototype.includes(sub)
includes(s, sub) == indexOf(s, sub, 0) # -1

\* path.extname(filename): from the last dot on, empty when there is no dot
\* or the only dot is the first character.
extname(filename) ==
    LET dots == {i \in 1..Len(filename) : filename[i] = "."}
    IN  IF dots = {} \/ MaxOf(dots) = 1 THEN <<>>
        ELSE SubSeq(filename, MaxOf(dots), Len(filename))

\* baseDir ? path.join(baseDir, entry.name) : entry.name
RelativePath(baseDir, name) ==
    IF baseDir = <<>> THEN name ELSE baseDir \o <<"/">> \o name

\* excludePatterns.some(pattern => entry.name.includes(pattern)
\*                                 || relativePath.includes(pattern))
Excluded(name, relativePath) ==
    \E pattern \in excludePatterns :
        includes(name, pattern) \/ includes(relativePath, pattern)

isDocumentationFile(filename) ==
    toLowerCase(extname(filename)) \in includeExtensions

\* processFile: the file's metadata, null when the file cannot be read.
processFile(entry, relativePath) ==
    IF entry.readable
    THEN Some([relativePath |-> relativePath, size |-> entry.size])
    ELSE Undefined

\* The order of the characters in a comparison of paths.
Collation ==
    <<"_", ".", "/", "a", "b", "c", "d", "e", "g", "i", "l", "m", "n", "o",
      "p", "s", "t", "u", "x">>

CollationRank(c) == CHOOSE i \in 1..Len(Collation) : Collation[i] = c

\* a.localeCompare(b) < 0
RECURSIVE ComesBefore(_, _)
ComesBefore(a, b) ==
    IF a = <<>> THEN b # <<>>
    ELSE IF b = <<>> THEN FALSE
    ELSE IF a[1] = b[1] THEN ComesBefore(Tail(a), Tail(b))
    ELSE CollationRank(a[1]) < CollationRank(b[1])

\* files.sort((a, b) => a.relativePath.localeCompare(b.relativePath)), on
\* files of different paths
SortByPath(files) ==
    [k \in 1..Len(files) |->
        files[CHOOSE i \in 1..Len(files) :
                  Cardinality({j \in 1..Len(files) :
                                  ComesBefore(files[j].relativePath,
                                              files[i].relativePath)}) = k - 1]]

\* collectFiles(dir, baseDir): the for loop from the i-th entry on, and the
\* sort of what it collected.  A directory that cannot be read gives no file.
RECURSIVE CollectFrom(_, _, _)
RECURSIVE collectFiles(_, _)
CollectFrom(entries, baseDir, i) ==
    IF i > Len(entries) THEN <<>>
    ELSE LET entry        == entries[i]
             relativePath == RelativePath(baseDir, entry.name)
             fileInfo     == processFile(entry, relativePath)
             here == IF Excluded(entry.name, relativePath) THEN <<>>
                     ELSE IF entry.isDirectory
                     THEN collectFiles(entry, relativePath)
                     ELSE IF isDocumentationFile(entry.name)
                             /\ fileInfo # Undefined
                     THEN <<fileInfo[1]>>
                     ELSE <<>>
         IN  here \o CollectFrom(entries, baseDir, i + 1)

collectFiles(dir, baseDir) ==
    IF dir.readable THEN SortByPath(CollectFrom(dir.entries, baseDir, 1))
    ELSE <<>>

\* The sum of the sizes of the files of a list.
RECURSIVE SumSizes(_)
SumSizes(files) ==
    IF files = <<>> THEN 0 ELSE files[1].size + SumSizes(Tail(files))

\* this.totalSize += fileInfo.size, for every file collectFiles pushes
AddedSize(totalSize, files) == totalSize + SumSizes(files)

File(name, size, readable) ==
    [name |-> name, isDirectory |-> FALSE, size |-> size,
     readable |-> readable, entries |-> <<>>]

Directory(name, entries) ==
    [name |-> name, isDirectory |-> TRUE, size |-> 0, readable |-> TRUE,
     entries |-> entries]

\* The entries a documentation directory is made of: two documents, a
\* picture, a document that cannot be read, a document whose name holds an
\* excluded pattern, and a subdirectory with one document.
DocsEntries ==
    <<File(<<"a", ".", "m", "d">>, 2, TRUE),
      File(<<"b", ".", "t", "x", "t">>, 3, TRUE),
      File(<<"c", ".", "p", "n", "g">>, 5, TRUE),
      File(<<"x", ".", "m", "d">>, 7, FALSE),
      File(<<"d", "i", "s", "t", ".", "m", "d">>, 11, TRUE),
      Directory(<<"g">>, <<File(<<"d", ".", "m", "d">>, 1, TRUE)>>)>>

\* The entries of DocsEntries at the positions of S, in their order.
Picked(S) ==
    [k \in 1..Cardinality(S) |->
        DocsEntries[CHOOSE i \in S : Cardinality({j \in S : j < i}) = k - 1]]

DocsDirectories ==
    {[exists |-> TRUE, readable |-> TRUE, entries |-> Picked(S)] :
        S \in SUBSET (1..Len(DocsEntries))}

InitGenerate ==
    /\ content = <<>>
    /\ calls = <<>>
    /\ NewRegistry
    /\ docs \in DocsDirectories \cup {NoDirectory}
    /\ generator = NewGenerator

\* What generate() reports: the files collected and the totals of the
\* summary, or the error thrown.
Generated(thrown, files, fields) ==
    [tool |-> "generate", thrown |-> thrown, files |-> files,
     fileCount |-> fields.fileCount, totalSize |-> fields.totalSize]

\* The fields of the generator after collectFiles returned files.
Collected(fields, files) ==
    [fileCount |-> Len(files), totalSize |-> AddedSize(fields.totalSize, files)]

\* generator.generate()
Generate ==
    /\ Len(calls) < MaxGenerateCalls
    /\ generator' = IF docs.exists
                    THEN Collected(generator, collectFiles(docs, <<>>))
                    ELSE generator
    /\ calls' = Append(calls,
                   IF docs.exists
                   THEN Generated(FALSE, collectFiles(docs, <<>>), generator')
                   ELSE Generated(TRUE, <<>>, generator))
    /\ UNCHANGED <<content, sessionVars, docs>>

NextGenerate == Generate

SpecGenerate == InitGenerate /\ [][NextGenerate]_vars

\* C30: after every call of generate(), a second or later call on the same
\* object included, the total size reported is the sum of the sizes of the
\* files that call collected and the file count reported is their number.
C30_TotalsOfThisCall ==
    \A i \in 1..Len(calls) :
        ~calls[i].thrown
            => /\ calls[i].fileCount = Len(calls[i].files)
               /\ calls[i].totalSize = SumSizes(calls[i].files)
====
